---- MODULE Spec2Model ----
(***************************************************************************)
(* The copyover (hot-reload) coordinator of GoMud/Willowdale.              *)
(*                                                                         *)
(* The repository holds two builds of package copyover:                    *)
(*   - internal/copyover/manager.go + states.go: the ten-phase manager     *)
(*     (InitiateCopyover, ScheduleCopyover, CancelCopyover, changeState);  *)
(*   - the simplified five-state manager (Copyover, Cancel, execute,       *)
(*     waitAndExecute).                                                    *)
(* The variable build says which of the two a behaviour runs.  Goroutines  *)
(* are threads with a program counter; one step of a thread is one         *)
(* critical section or one blocking call of the Go code.                   *)
(***************************************************************************)
EXTENDS Integers, Sequences, FiniteSets, TLC

\* ------------------------------------------------------------------ bounds
NOps == 2          \* operator goroutines that issue manager calls
MaxCalls == 3      \* manager calls issued over one behaviour
MaxFiles == 1      \* descriptors the gatherers duplicate in one attempt
MaxTicks == 1      \* user commands / round ticks run over one behaviour

Ops == 1..NOps
Threads == 1..(2 * NOps)
\* the goroutine slot used by a `go` statement executed by operator thread p
Spawned(p) == p + NOps

Builds == {"manager", "simplified"}
ScheduleReasons == {"maint"}     \* the reason given to schedule / Copyover
CancelReasons == {"test"}        \* the reason given to cancel
Whens == {"past", "future"}
Countdowns == {0, 10}
Modules == {"auctions", "combat"}
VetoTypes == {"soft", "hard"}

\* What ModuleParticipant.CanCopyover of module m can answer: ready, or a
\* VetoInfo of either type whose Module field is its own name or left empty
Answers(m) ==
    {[ready |-> TRUE, Module |-> "", Type |-> ""]} \cup
    {[ready |-> FALSE, Module |-> n, Type |-> t] : n \in {"", m}, t \in VetoTypes}

\* every combination of answers of the registered modules
AllVotes == {v \in [Modules -> UNION {Answers(m) : m \in Modules}] :
                \A m \in Modules : v[m] \in Answers(m)}

\* the modules of the repository: only auctions vetoes (manager.go line 205),
\* and it names itself in the VetoInfo
RegisteredVotes ==
    {v \in AllVotes : v["combat"].ready /\ (v["auctions"].ready \/ v["auctions"].Module # "")}

VARIABLES
    build,          \* which manager source the process runs
    proc,           \* "running" | "crashed" (Go fatal error / panic)
    gen,            \* successor processes started (exec) so far
    calls,          \* manager calls issued so far
    pc,             \* per thread: position in the code
    call,           \* per thread: arguments and locals of the running call
    ret,            \* per thread: what the last call returned
    dirty,          \* per thread: the running/last call has written manager state
    mu,             \* Manager.mu: 0 when free, else the thread holding it
    mudLock,        \* util.LockMud: 0 when free, else the thread holding it
    \* --- manager.go
    currentState,   \* Manager.currentState
    inProgress,     \* Manager.inProgress
    status,         \* Manager.status (the fields the manager writes)
    lastCS,         \* the last changeState request: [from, to, err, seq]
    \* --- simplified manager
    state,          \* Manager.state
    scheduledFor,   \* Manager.scheduledFor
    initiatedBy,    \* Manager.initiatedBy
    reason,         \* Manager.reason
    timer,          \* Manager.timer: id of the timer object, 0 = nil
    cancelChan,     \* Manager.cancelChan: id of the channel, 0 = nil
    timerSt,        \* timer objects: "none" | "armed" | "fired" | "stopped" | "drained"
    chanSt,         \* channel objects: "none" | "open" | "closed"
    \* --- collaborators
    votes,          \* what each registered module answers to CanCopyover
    events,         \* lifecycle events put on the event queue by this process
    cleanupCalls,   \* CleanupModulesAfterCopyover fan-outs run
    prepareCalls,   \* PrepareModulesForCopyover fan-outs run
    \* --- what an attempt leaves behind
    world,          \* user commands and round ticks the world has run
    dataFile,       \* copyover.dat exists
    extraFiles,     \* Manager.extraFiles, the inheritance list
    openFiles,      \* descriptors duplicated by the gatherers and not closed
    \* --- the process start
    marker,         \* the environment holds COPYOVER_RECOVERY=1 (CopyoverEnvVar)
    restorerCalls,  \* per registered restorer: times invoked in this process
    \* --- saveState: the snapshot file and its temporary, block by block
    savePc,         \* "off" | "idle" | "write" | "rename" | "crashed"
    files,          \* path -> [ver, len]: which snapshot, how much of it
    saveNo,         \* saveState calls made: the snapshot being written
    lastRead,       \* what the last reader of the snapshot path was given
    \* --- manager.go: the history of completed copyovers
    historyRing,    \* Manager.history: the records kept, oldest first
    historyCounter, \* Manager.historyCounter
    totalCopyovers, \* Manager.status.TotalCopyovers
    added,          \* the records handed to addToHistory so far, in order
    got,            \* what the last GetHistory returned
    \* --- events/copyover.go: the event queue across the exec
    evPc,           \* "off" | "saved" | "restored"
    savedEvents,    \* EventCopyoverState.QueuedEvents, as read by the successor
    globalQueue,    \* the event queue of the successor
    orderCounter,   \* the successor's order counter
    \* --- manager.go: announceCountdown
    annPc,          \* "off" | "start" | "minutes" | "countdown" | "pre" | "done"
    countdownFrom,  \* the argument of announceCountdown
    seconds,        \* its local `seconds`, then the `i` of its second loop
    announced,      \* the announcements made: [template, at] with at the
                    \* seconds that remained
    \* --- parties/copyover.go: the party map across the exec
    partyPc,        \* "off" | "run" | "gathered" | "restored" | "again"
    partyMap,       \* partyMap: user id -> party
    origMap,        \* the party map the predecessor gathered from
    partyList,      \* PartyCopyoverState.Parties of the last gather
    firstList,      \* PartyCopyoverState.Parties of the predecessor's gather
    \* --- the subsystems' blob files (integrations, events/copyover.go)
    blobPc,         \* "off" | "run" | "gathered" | "successor"
    attempt,        \* copyover attempts that reached the gather so far
    live,           \* per system: items of state it holds in memory now
    blobFile,       \* per system: the blob file, [by, items]; by = 0 when absent
    restoredBlob,   \* per system: the blob the running process restored
    startedBy,      \* the attempt whose exec started the running process
    \* --- the operator's copyover command (usercommands) and the manager's status
    cmdPc,          \* "off" | "idle" | "queued" | "started" | "recovered"
    cmds,           \* copyover commands issued so far
    managerStatus,  \* Manager.status: [InitiatedBy, Reason]
    statusCopy,     \* the CopyoverStatus the command got from GetStatus
    issued,         \* the command under way: [by, reason, countdown]
    scheduledEvent, \* the CopyoverScheduled event fired, [InitiatedBy, Reason]
    historyRecord,  \* the CopyoverHistory written for the copyover
    \* --- connections.go: the descriptors handed to the successor
    fdPc,           \* position in the gather / exec / recover sequence
    listeners,      \* the listener map given to RegisterConnectionGatherers
    conns,          \* connections.GetAllConnectionIds(), each with its kind
    preservedState, \* manager.preservedState: [Listeners, Connections]
    inherited,      \* the successor's descriptors 3, 4, ... (cmd.ExtraFiles)
    recovered,      \* what RecoverListeners / RecoverConnections attached
    history,        \* the record RecoverFromCopyover adds to the history
    \* --- module.go: the module registry
    modPc,          \* "off" | "run" | "gathered" | "successor" | "restored"
    regCalls,       \* RegisterModule / UnregisterModule calls made
    participants,   \* moduleRegistry.participants: name -> module
    states,         \* moduleRegistry.states: name -> gathered state
    modState,       \* the live state of the module registered under a name
    returned,       \* what each GatherState returned before the exec
    restoredWith,   \* what each RestoreState was handed in the successor
    regResult,      \* the last RegisterModule call and its result
    regOrder,       \* the registered names, in the order of their registration
    fanOut,         \* the last fan-out: the modules visited, in order, those
                    \* whose callback failed, and the module whose error came back
    fan,            \* the fan-out that holds moduleRegistry.mu and walks the map
    waiting         \* per goroutine: the registry call it has issued and that
                    \* has not returned

ctlVars == <<build, proc, gen, calls, pc, call, ret, dirty>>
lockVars == <<mu, mudLock>>
mgrVars == <<currentState, inProgress, status, lastCS>>
simVars == <<state, scheduledFor, initiatedBy, reason, timer, cancelChan, timerSt, chanSt>>
envVars == <<votes, events, cleanupCalls, prepareCalls>>
resVars == <<world, dataFile, extraFiles, openFiles>>
fdVars == <<fdPc, listeners, conns, preservedState, inherited, recovered, history>>
\* the variables of the operations that are checked on their own
regLockVars == <<fan, waiting>>
modVars == <<modPc, regCalls, participants, states, modState, returned,
             restoredWith, regResult, regOrder, fanOut, regLockVars>>
bootVars == <<marker, restorerCalls>>
saveVars == <<savePc, files, saveNo, lastRead>>
histVars == <<historyRing, historyCounter, totalCopyovers, added, got>>
evVars == <<evPc, savedEvents, globalQueue, orderCounter>>
annVars == <<annPc, countdownFrom, seconds, announced>>
partyVars == <<partyPc, partyMap, origMap, partyList, firstList>>
blobVars == <<blobPc, attempt, live, blobFile, restoredBlob, startedBy>>
cmdVars == <<cmdPc, cmds, managerStatus, statusCopy, issued, scheduledEvent, historyRecord>>
\* the variables of the further operations that are checked on their own
auxVars == <<histVars, evVars, annVars, partyVars, blobVars, cmdVars>>
sideVars == <<fdVars, modVars, bootVars, saveVars, auxVars>>
\* what an operation on the descriptors / on the registry leaves alone
besideFd == <<ctlVars, lockVars, mgrVars, simVars, envVars, modVars, bootVars,
              saveVars, auxVars>>
besideMod == <<ctlVars, lockVars, mgrVars, simVars, envVars, resVars, fdVars,
               bootVars, saveVars, auxVars>>
besideSave == <<ctlVars, lockVars, mgrVars, simVars, envVars, fdVars, modVars,
                bootVars, auxVars, world, extraFiles, openFiles>>
\* what an operation on one of the further groups leaves alone besides them
besideAux == <<ctlVars, lockVars, mgrVars, simVars, envVars, resVars, fdVars,
               modVars, bootVars, saveVars>>
besideHist == <<besideAux, evVars, annVars, partyVars, blobVars, cmdVars>>
besideEv == <<besideAux, histVars, annVars, partyVars, blobVars, cmdVars>>
besideAnn == <<besideAux, histVars, evVars, partyVars, blobVars, cmdVars>>
besideParty == <<besideAux, histVars, evVars, annVars, blobVars, cmdVars>>
besideBlob == <<besideAux, histVars, evVars, annVars, partyVars, cmdVars>>
besideCmd == <<besideAux, histVars, evVars, annVars, partyVars, blobVars>>
vars == <<ctlVars, lockVars, mgrVars, simVars, envVars, resVars, sideVars>>

\* ------------------------------------------------------------ states.go
Phases == {"idle", "scheduled", "announcing", "building", "saving",
           "gathering", "executing", "recovering", "cancelling", "failed"}

\* a transition table that lists every phase as a target of every phase
anyPhase(s) == Phases

validTransitions(s) ==
    CASE s = "idle"       -> {"scheduled", "building", "recovering"}
      [] s = "scheduled"  -> {"announcing", "cancelling"}
      [] s = "announcing" -> {"building", "cancelling"}
      [] s = "building"   -> {"saving", "failed", "cancelling"}
      [] s = "saving"     -> {"gathering", "failed"}
      [] s = "gathering"  -> {"executing", "failed"}
      [] s = "executing"  -> {"recovering", "failed"}
      [] s = "recovering" -> {"idle", "failed"}
      [] s = "cancelling" -> {"idle"}
      [] s = "failed"     -> {"idle"}
      [] OTHER            -> {}

CanTransitionTo(s, target) == target \in validTransitions(s)

IsActive(s) == s # "idle" /\ s # "failed"

\* CopyoverStatus.CanCopyover: no reason collected
CanCopyover(st) ==
    /\ ~IsActive(st.State)
    /\ \A i \in 1..Len(st.VetoReasons) : st.VetoReasons[i].Type # "hard"

\* ------------------------------------------------------------ module.go
NotReady(v) == {m \in DOMAIN v : ~v[m].ready}

Perms(S) ==
    {f \in [1..Cardinality(S) -> S] : \A i, j \in DOMAIN f : i # j => f[i] # f[j]}

\* a fan-out in which any veto, soft or hard, blocks
CheckModuleVetoesStrict(v) ==
    {[canProceed |-> NotReady(v) = {},
      vetoes |-> [i \in DOMAIN o |->
                    [Module |-> IF v[o[i]].Module = "" THEN o[i] ELSE v[o[i]].Module,
                     Type |-> v[o[i]].Type]]] :
        o \in Perms(NotReady(v))}

\* CheckModuleVetoes: the results it can return; Go iterates the participants
\* map in an unspecified order, so the vetoes may come in any order.
CheckModuleVetoes(v) ==
    {[canProceed |-> \A m \in NotReady(v) : v[m].Type # "hard",
      vetoes |-> [i \in DOMAIN o |->
                    [Module |-> IF v[o[i]].Module = "" THEN o[i] ELSE v[o[i]].Module,
                     Type |-> v[o[i]].Type]]] :
        o \in Perms(NotReady(v))}

\* ------------------------------------------------------- call bookkeeping
NoCall == [op |-> "none", countdown |-> 0, reason |-> "", when |-> "",
           includeBuild |-> FALSE, tmr |-> 0, chn |-> 0,
           fail |-> "", steps |-> {}, world |-> 0,
           vetoes |-> <<>>, seen |-> <<>>]
NoRet == [op |-> "none", res |-> "none"]

NewStatus(s) == [State |-> s, ScheduledAt |-> "zero", ScheduledFor |-> "zero",
                 InitiatedBy |-> 0, Reason |-> "", VetoReasons |-> <<>>]

Running == proc = "running"

Goto(p, label) == pc' = [pc EXCEPT ![p] = label]

\* the call returns r to its caller; a spawned goroutine simply ends
Return(p, r) ==
    /\ pc' = [pc EXCEPT ![p] = "idle"]
    /\ ret' = [ret EXCEPT ![p] = [op |-> call[p].op, res |-> r]]
    /\ call' = [call EXCEPT ![p] = NoCall]

Begin(p, c, label) ==
    /\ Running
    /\ p \in Ops
    /\ pc[p] = "idle"
    /\ calls < MaxCalls
    /\ calls' = calls + 1
    /\ pc' = [pc EXCEPT ![p] = label]
    /\ call' = [call EXCEPT ![p] = c]
    /\ ret' = [ret EXCEPT ![p] = NoRet]
    /\ dirty' = [dirty EXCEPT ![p] = FALSE]
    /\ UNCHANGED <<build, proc, gen>>

Wrote(p) == dirty' = [dirty EXCEPT ![p] = TRUE]

\* the call of thread p has run the steps S
Ran(p, S) == [call[p] EXCEPT !.steps = @ \cup S]

\* the call of thread p has run the steps S, the last of which returned an error
Failed(p, S, why) == [call[p] EXCEPT !.steps = @ \cup S, !.fail = why]

\* ------------------------------------------------- manager.go: changeState
\* Manager.changeState under its own Lock/Unlock: the phase moves only along
\* an edge of validTransitions; lastCS records the request and its outcome.
changeState(p, newState) ==
    /\ mu = 0
    /\ LET ok == CanTransitionTo(currentState, newState) IN
        /\ lastCS' = [from |-> currentState, to |-> newState, err |-> ~ok,
                      seq |-> 1 - lastCS.seq]
        /\ currentState' = IF ok THEN newState ELSE currentState
        /\ status' = IF ok THEN [status EXCEPT !.State = newState] ELSE status
        /\ dirty' = [dirty EXCEPT ![p] = dirty[p] \/ ok]
    /\ UNCHANGED mu

ChangeOK(newState) == CanTransitionTo(currentState, newState)

\* ------------------------------------------- manager.go: InitiateCopyover
StartInitiate(p) ==
    /\ build = "manager"
    /\ \E cd \in Countdowns :
        Begin(p, [NoCall EXCEPT !.op = "initiate", !.countdown = cd], "ic_check")
    /\ UNCHANGED <<lockVars, mgrVars, simVars, envVars, resVars, sideVars>>

\* lines 199-207: status.CanCopyover, then CheckModuleVetoes; both without
\* the manager mutex
InitiateCheck(p) ==
    /\ Running /\ pc[p] = "ic_check"
    /\ IF ~CanCopyover(status)
       THEN Return(p, "refused")
       ELSE \E r \in CheckModuleVetoes(votes) :
              /\ Goto(p, IF r.canProceed THEN "ic_lock" ELSE "ic_veto")
              /\ call' = [call EXCEPT ![p].vetoes =
                             IF r.canProceed THEN @ ELSE r.vetoes]
              /\ UNCHANGED ret
    /\ UNCHANGED <<build, sideVars, resVars, proc, gen, calls, dirty, lockVars, mgrVars,
                   simVars, envVars>>

\* line 209, m.status.VetoReasons = append(m.status.VetoReasons, ...), still
\* without the mutex: the slice is read ...
InitiateVetoRead(p) ==
    /\ Running /\ pc[p] = "ic_veto"
    /\ call' = [call EXCEPT ![p].seen = status.VetoReasons]
    /\ Goto(p, "ic_append")
    /\ UNCHANGED <<build, sideVars, resVars, proc, gen, calls, ret, dirty, lockVars, mgrVars,
                   simVars, envVars>>

\* ... and the extended slice is stored; line 210 returns the error
InitiateVetoAppend(p) ==
    /\ Running /\ pc[p] = "ic_append"
    /\ status' = [status EXCEPT !.VetoReasons = call[p].seen \o call[p].vetoes]
    /\ Wrote(p)
    /\ Return(p, "refused")
    /\ UNCHANGED <<build, sideVars, resVars, proc, gen, calls, lockVars, currentState, inProgress,
                   lastCS, simVars, envVars>>

\* lines 213-227
InitiateLock(p) ==
    /\ Running /\ pc[p] = "ic_lock"
    /\ mu = 0
    /\ IF inProgress
       THEN /\ Return(p, "refused")
            /\ UNCHANGED <<inProgress, status, dirty>>
       ELSE /\ inProgress' = TRUE
            /\ status' = [status EXCEPT
                   !.ScheduledAt = "now",
                   !.ScheduledFor = IF call[p].countdown > 0 THEN "countdown" ELSE @]
            /\ Wrote(p)
            /\ Goto(p, "ic_first")
            /\ UNCHANGED <<call, ret>>
    /\ UNCHANGED <<build, sideVars, resVars, proc, gen, calls, lockVars, currentState, lastCS,
                   simVars, envVars>>

\* lines 229-246: the first transition; an error here returns before the
\* deferred cleanup is registered.
InitiateFirst(p) ==
    /\ Running /\ pc[p] = "ic_first"
    /\ LET target == IF call[p].countdown > 0 THEN "scheduled" ELSE "building" IN
        /\ changeState(p, target)
        /\ IF ~ChangeOK(target)
           THEN Return(p, "rejected") /\ UNCHANGED events
           ELSE /\ UNCHANGED <<call, ret>>
                /\ IF call[p].countdown > 0
                   THEN /\ Goto(p, "ic_announcing")
                        /\ events' = events \cup
                             {[type |-> "Scheduled", reason |-> status.Reason,
                               by |-> status.InitiatedBy]}
                   ELSE Goto(p, "ic_build") /\ UNCHANGED events
    /\ UNCHANGED <<build, sideVars, resVars, proc, gen, calls, mudLock, inProgress, simVars,
                   votes, cleanupCalls, prepareCalls>>

\* a changeState whose error leads to `return nil, err` with the deferred
\* cleanup registered (lines 274, 304, 324, 358)
InitiateStep(p, label, target, next) ==
    /\ Running /\ pc[p] = label
    /\ changeState(p, target)
    /\ Goto(p, IF ChangeOK(target) THEN next ELSE "ic_defer")
    /\ call' = [call EXCEPT ![p] = IF ChangeOK(target) THEN @
                                   ELSE Failed(p, {}, "transition")]
    /\ UNCHANGED <<build, sideVars, resVars, proc, gen, calls, ret, mudLock, inProgress,
                   simVars, envVars>>

InitiateAnnouncing(p) == InitiateStep(p, "ic_announcing", "announcing", "ic_countdown")

\* lines 277-285: announceCountdown sleeps the countdown away and returns nil,
\* then the transition to Building
InitiateCountdown(p) == InitiateStep(p, "ic_countdown", "building", "ic_build")

\* lines 288-302: updateProgress takes the mutex; the build succeeds or fails
InitiateBuild(p) ==
    /\ Running /\ pc[p] = "ic_build"
    /\ mu = 0
    /\ \E ok \in BOOLEAN :
         /\ Goto(p, IF ok THEN "ic_saving" ELSE "ic_failed")
         /\ call' = [call EXCEPT ![p] = IF ok THEN Ran(p, {"build"})
                                        ELSE Failed(p, {"build"}, "build")]
    /\ UNCHANGED <<build, sideVars, resVars, proc, gen, calls, ret, dirty, lockVars, mgrVars,
                   simVars, envVars>>

\* lines 295 and 365: changeState(StateFailed), its error ignored
InitiateFailed(p) ==
    /\ Running /\ pc[p] = "ic_failed"
    /\ changeState(p, "failed")
    /\ Goto(p, "ic_defer")
    /\ UNCHANGED <<build, sideVars, resVars, proc, gen, calls, call, ret, mudLock, inProgress,
                   simVars, envVars>>

InitiateSaving(p) == InitiateStep(p, "ic_saving", "saving", "ic_save")

\* lines 308-321: PrepareModulesForCopyover, saveAllUsers, updateProgress
InitiateSave(p) ==
    /\ Running /\ pc[p] = "ic_save"
    /\ mu = 0
    /\ prepareCalls' = prepareCalls + 1
    /\ call' = [call EXCEPT ![p] = [Ran(p, {"prepare", "save"}) EXCEPT !.world = world]]
    /\ Goto(p, "ic_gathering")
    /\ UNCHANGED <<build, sideVars, resVars, proc, gen, calls, ret, dirty, lockVars, mgrVars,
                   simVars, votes, events, cleanupCalls>>

InitiateGathering(p) == InitiateStep(p, "ic_gathering", "gathering", "ic_gather")

\* lines 331-351: gatherState cannot fail; it replaces m.extraFiles by a new
\* list (line 477), to which the gatherers append the descriptors they
\* duplicate.  saveState can fail, and then the call returns without a
\* transition to Failed; prepareFileDescriptors always returns nil.
InitiateGather(p) ==
    /\ Running /\ pc[p] = "ic_gather"
    /\ mu = 0
    /\ \E n \in 0..MaxFiles :
         /\ extraFiles' = [i \in 1..n |-> "file"]
         /\ openFiles' = openFiles + n
    /\ \E ok \in BOOLEAN :
         /\ Goto(p, IF ok THEN "ic_executing" ELSE "ic_defer")
         /\ dataFile' = (dataFile \/ ok)
         /\ call' = [call EXCEPT ![p] = IF ok THEN Ran(p, {"gather", "write"})
                                        ELSE Failed(p, {"gather", "write"}, "write")]
    /\ UNCHANGED <<build, sideVars, proc, gen, calls, ret, dirty, lockVars, mgrVars,
                   simVars, envVars, world>>

InitiateExecuting(p) == InitiateStep(p, "ic_executing", "executing", "ic_exec")

\* the restorers registered at start-up, in the order of their registration:
\* connections.go RegisterConnectionGatherers, module.go init
Restorers == {"connections", "modules"}
RestorerOrder == <<"connections", "modules">>

\* a restorer loop that gives up at the first restorer that fails
runRestorersStopping(failing) ==
    LET bad == {i \in DOMAIN RestorerOrder : RestorerOrder[i] \in failing}
        last == IF bad = {} THEN Len(RestorerOrder)
                ELSE CHOOSE i \in bad : \A j \in bad : i <= j
    IN  [r \in Restorers |->
            IF \E i \in 1..last : RestorerOrder[i] = r
            THEN restorerCalls[r] + 1 ELSE restorerCalls[r]]

\* manager.go lines 420-429, part_013 lines 279-284: every restorer is
\* invoked, an error is logged and the loop goes on
runRestorers(failing) == [r \in Restorers |-> restorerCalls[r] + 1]

\* The process image is replaced: the successor starts with fresh memory,
\* its init() sees the inheritance marker (manager.go 89-114 and the
\* simplified init), and main runs RecoverFromCopyover on thread 1.
Successor ==
    /\ gen' = gen + 1
    /\ pc' = [q \in Threads |->
                IF q = 1 THEN (IF build = "manager" THEN "rc_start" ELSE "rs_start")
                ELSE "idle"]
    /\ call' = [q \in Threads |->
                IF q = 1 THEN [NoCall EXCEPT !.op = "recover"] ELSE NoCall]
    /\ ret' = [q \in Threads |-> NoRet]
    /\ dirty' = [q \in Threads |-> FALSE]
    /\ mu' = 0
    /\ mudLock' = 0
    /\ currentState' = IF build = "manager" THEN "recovering" ELSE "idle"
    /\ inProgress' = FALSE
    /\ status' = NewStatus(IF build = "manager" THEN "recovering" ELSE "idle")
    /\ lastCS' = [from |-> "idle", to |-> "idle", err |-> FALSE, seq |-> 0]
    /\ state' = IF build = "simplified" THEN "recovering" ELSE "idle"
    /\ scheduledFor' = "zero"
    /\ initiatedBy' = 0
    /\ reason' = ""
    /\ timer' = 0
    /\ cancelChan' = 0
    /\ timerSt' = [i \in DOMAIN timerSt |-> "none"]
    /\ chanSt' = [i \in DOMAIN chanSt |-> "none"]
    /\ events' = {}
    /\ cleanupCalls' = 0
    /\ prepareCalls' = 0
    /\ extraFiles' = <<>>
    /\ openFiles' = 0
    /\ marker' = TRUE
    /\ restorerCalls' = [r \in Restorers |-> 0]
    /\ UNCHANGED <<build, fdVars, modVars, saveVars, auxVars, proc, calls, votes, world, dataFile>>

\* lines 362-367 and executeNewProcess 594-652: cmd.Start fails and the call
\* goes on to changeState(StateFailed), or the child starts and this process
\* exits
InitiateExec(p) ==
    /\ Running /\ pc[p] = "ic_exec"
    /\ \/ /\ Goto(p, "ic_failed")
          /\ call' = [call EXCEPT ![p] = Failed(p, {"exec"}, "exec")]
          /\ UNCHANGED <<build, sideVars, resVars, proc, gen, calls, ret, dirty, lockVars,
                         mgrVars, simVars, envVars>>
       \/ Successor

\* lines 248-261: the deferred function, first half: under the mutex the
\* flag is cleared and every file of m.extraFiles is closed, the list set nil
InitiateDefer(p) ==
    /\ Running /\ pc[p] = "ic_defer"
    /\ mu = 0
    /\ inProgress' = FALSE
    /\ openFiles' = openFiles - Len(extraFiles)
    /\ extraFiles' = <<>>
    /\ Wrote(p)
    /\ Goto(p, "ic_deferIdle")
    /\ UNCHANGED <<build, sideVars, proc, gen, calls, call, ret, lockVars, currentState,
                   status, lastCS, simVars, envVars, world, dataFile>>

\* lines 262-265: back to Idle unless recovering; changeState's error is dropped
InitiateDeferIdle(p) ==
    /\ Running /\ pc[p] = "ic_deferIdle"
    /\ IF currentState # "recovering"
       THEN changeState(p, "idle")
       ELSE UNCHANGED <<mu, currentState, status, lastCS, dirty>>
    /\ Return(p, "error")
    /\ UNCHANGED <<build, sideVars, resVars, proc, gen, calls, mudLock, inProgress, simVars, envVars>>

\* ------------------------------------------- manager.go: ScheduleCopyover
StartSchedule(p) ==
    /\ build = "manager"
    /\ p \in Ops
    /\ pc[Spawned(p)] = "idle"
    /\ \E w \in Whens, r \in ScheduleReasons :
        Begin(p, [NoCall EXCEPT !.op = "schedule", !.when = w, !.reason = r], "sc_check")
    /\ UNCHANGED <<lockVars, mgrVars, simVars, envVars, resVars, sideVars>>

\* lines 882-886
ScheduleCheck(p) ==
    /\ Running /\ pc[p] = "sc_check"
    /\ IF ~CanCopyover(status)
       THEN Return(p, "refused")
       ELSE Goto(p, "sc_lock") /\ UNCHANGED <<call, ret>>
    /\ UNCHANGED <<build, sideVars, resVars, proc, gen, calls, dirty, lockVars, mgrVars, simVars, envVars>>

\* lines 888-908: under the mutex, which is released before changeState
ScheduleLock(p) ==
    /\ Running /\ pc[p] = "sc_lock"
    /\ mu = 0
    /\ IF currentState # "idle" \/ call[p].when = "past"
       THEN /\ Return(p, "refused")
            /\ UNCHANGED <<status, dirty>>
       ELSE /\ status' = [status EXCEPT !.ScheduledAt = "now",
                                        !.ScheduledFor = call[p].when,
                                        !.InitiatedBy = p,
                                        !.Reason = call[p].reason]
            /\ Wrote(p)
            /\ Goto(p, "sc_change")
            /\ UNCHANGED <<call, ret>>
    /\ UNCHANGED <<build, sideVars, resVars, proc, gen, calls, lockVars, currentState, inProgress,
                   lastCS, simVars, envVars>>

\* lines 909-912: on error the function returns with the mutex unlocked and
\* the deferred m.mu.Unlock() runs: "fatal error: sync: Unlock of unlocked
\* RWMutex", which ends the process
ScheduleChange(p) ==
    /\ Running /\ pc[p] = "sc_change"
    /\ changeState(p, "scheduled")
    /\ IF ChangeOK("scheduled")
       THEN Goto(p, "sc_arm") /\ UNCHANGED <<proc, call, ret>>
       ELSE proc' = "crashed" /\ Return(p, "fatal")
    /\ UNCHANGED <<build, sideVars, resVars, gen, calls, mudLock, inProgress, simVars, envVars>>

\* lines 912-945: the mutex again, the Scheduled event, the timer goroutine
ScheduleArm(p) ==
    /\ Running /\ pc[p] = "sc_arm"
    /\ mu = 0
    /\ events' = events \cup
         {[type |-> "Scheduled", reason |-> call[p].reason, by |-> p]}
    /\ pc' = [pc EXCEPT ![p] = "idle", ![Spawned(p)] = "tm_wait"]
    /\ call' = [call EXCEPT ![p] = NoCall,
                            ![Spawned(p)] = [NoCall EXCEPT !.op = "timer"]]
    /\ ret' = [ret EXCEPT ![p] = [op |-> "schedule", res |-> "nil"],
                          ![Spawned(p)] = NoRet]
    /\ dirty' = [dirty EXCEPT ![Spawned(p)] = FALSE]
    /\ UNCHANGED <<build, sideVars, resVars, proc, gen, calls, lockVars, mgrVars, simVars, votes,
                   cleanupCalls, prepareCalls>>

\* lines 923-943: the timer goroutine; when the timer fires it reads the
\* phase under RLock and calls InitiateCopyover(0) if still Scheduled
TimerFires(p) ==
    /\ Running /\ pc[p] = "tm_wait"
    /\ mu = 0
    /\ IF currentState = "scheduled"
       THEN /\ Goto(p, "ic_check")
            /\ call' = [call EXCEPT ![p] = [NoCall EXCEPT !.op = "initiate"]]
            /\ UNCHANGED ret
       ELSE Return(p, "done")
    /\ UNCHANGED <<build, sideVars, resVars, proc, gen, calls, dirty, lockVars, mgrVars, simVars, envVars>>

\* --------------------------------------------- manager.go: CancelCopyover
StartCancel(p) ==
    /\ build = "manager"
    /\ p \in Ops
    /\ pc[Spawned(p)] = "idle"
    /\ \E r \in CancelReasons :
        Begin(p, [NoCall EXCEPT !.op = "cancel", !.reason = r], "cc_lock")
    /\ UNCHANGED <<lockVars, mgrVars, simVars, envVars, resVars, sideVars>>

\* a CancelCopyover without the two checks of lines 954-961
CancelLockUnchecked(p) ==
    /\ mu = 0
    /\ mu' = p /\ Goto(p, "cc_change") /\ UNCHANGED <<call, ret>>
    /\ UNCHANGED <<build, sideVars, resVars, proc, gen, calls, dirty, mudLock, mgrVars, simVars, envVars>>

\* lines 950-961: m.mu.Lock() with a deferred Unlock; the two refusals
\* return (and unlock); otherwise the call goes on holding the mutex
CancelLock(p) ==
    /\ mu = 0
    /\ IF ~IsActive(currentState) \/ ~CanTransitionTo(currentState, "cancelling")
       THEN Return(p, "refused") /\ UNCHANGED mu
       ELSE mu' = p /\ Goto(p, "cc_change") /\ UNCHANGED <<call, ret>>
    /\ UNCHANGED <<build, sideVars, resVars, proc, gen, calls, dirty, mudLock, mgrVars, simVars, envVars>>

\* lines 963-966: changeState locks m.mu itself; called with the mutex held
\* by the caller it waits for mu = 0
CancelChange(p) ==
    /\ changeState(p, "cancelling")
    /\ IF ChangeOK("cancelling")
       THEN Goto(p, "cc_announce") /\ UNCHANGED <<call, ret>>
       ELSE Return(p, "error")
    /\ UNCHANGED <<build, sideVars, resVars, proc, gen, calls, mudLock, inProgress, simVars, envVars>>

\* lines 968-994: the Cancelled event, the announcement, the cleanup
\* goroutine, return nil and the deferred Unlock
CancelAnnounce(p) ==
    /\ events' = events \cup
         {[type |-> "Cancelled", reason |-> call[p].reason, by |-> status.InitiatedBy]}
    /\ mu' = 0
    /\ pc' = [pc EXCEPT ![p] = "idle", ![Spawned(p)] = "cc_cleanup"]
    /\ call' = [call EXCEPT ![p] = NoCall,
                            ![Spawned(p)] = [NoCall EXCEPT !.op = "cleanup"]]
    /\ ret' = [ret EXCEPT ![p] = [op |-> "cancel", res |-> "nil"],
                          ![Spawned(p)] = NoRet]
    /\ dirty' = [dirty EXCEPT ![Spawned(p)] = FALSE]
    /\ UNCHANGED <<build, sideVars, resVars, proc, gen, calls, mudLock, mgrVars, simVars, votes,
                   cleanupCalls, prepareCalls>>

\* lines 980-988: the goroutine: sleep, CleanupModulesAfterCopyover,
\* changeState(StateIdle)
CancelCleanup(p) ==
    /\ cleanupCalls' = cleanupCalls + 1
    /\ changeState(p, "idle")
    /\ Goto(p, "cc_flag")
    /\ UNCHANGED <<build, sideVars, resVars, proc, gen, calls, call, ret, mudLock, inProgress,
                   simVars, votes, events, prepareCalls>>

\* lines 989-991
CancelFlag(p) ==
    /\ mu = 0
    /\ inProgress' = FALSE
    /\ Wrote(p)
    /\ Return(p, "done")
    /\ UNCHANGED <<build, sideVars, resVars, proc, gen, calls, lockVars, currentState, status,
                   lastCS, simVars, envVars>>

\* CancelCopyover and the goroutine it starts, by position.  Only the first
\* position can be left: from "cc_change" on, the call waits for a mutex it
\* holds itself.
CancelCopyover(p) ==
    /\ Running
    /\ CASE pc[p] = "cc_lock"     -> CancelLock(p)
         [] pc[p] = "cc_change"   -> CancelChange(p)
         [] pc[p] = "cc_announce" -> CancelAnnounce(p)
         [] pc[p] = "cc_cleanup"  -> CancelCleanup(p)
         [] pc[p] = "cc_flag"     -> CancelFlag(p)
         [] OTHER                 -> FALSE

\* ---------------------------------------- manager.go: RecoverFromCopyover
\* lines 375-403: the phase is Recovering from init, else changeState; then
\* loadState, whose failure returns at once with the file left in place;
\* after a load os.Remove (the file is one this directory's owner wrote:
\* the removal succeeds, as every removal in this model does)
RecoverStart(p) ==
    /\ Running /\ pc[p] = "rc_start"
    /\ mu = 0
    /\ IF currentState # "recovering"
       THEN changeState(p, "recovering")
       ELSE UNCHANGED <<mu, currentState, status, lastCS, dirty>>
    /\ IF currentState # "recovering" /\ ~ChangeOK("recovering")
       THEN Return(p, "error") /\ UNCHANGED dataFile
       ELSE \E loaded \in {FALSE, dataFile} :
              IF loaded
              THEN /\ dataFile' = FALSE
                   /\ Goto(p, "rc_restore") /\ UNCHANGED <<call, ret>>
              ELSE Return(p, "error") /\ UNCHANGED dataFile
    /\ UNCHANGED <<build, sideVars, proc, gen, calls, mudLock, inProgress, simVars, envVars,
                   world, extraFiles, openFiles>>

\* lines 405-463: the restorers, then back to Idle, the Completed event and
\* the history record
RecoverFinish(p) ==
    /\ Running /\ pc[p] = "rc_restore"
    /\ \E failing \in SUBSET Restorers : restorerCalls' = runRestorers(failing)
    /\ changeState(p, "idle")
    /\ IF ChangeOK("idle")
       THEN /\ events' = events \cup {[type |-> "Completed", reason |-> "", by |-> 0]}
            /\ Return(p, "nil")
       ELSE Return(p, "error") /\ UNCHANGED events
    /\ UNCHANGED <<build, fdVars, modVars, saveVars, auxVars, marker, resVars, proc, gen, calls, mudLock,
                   inProgress, simVars, votes, cleanupCalls, prepareCalls>>

\* ------------------------------------------------------ the process start
\* The package init(): manager.go lines 89-114 start in Recovering when the
\* marker is set or the snapshot file exists and leave the file; part_013
\* lines 93-109 start in Recovering only with the marker, and without it
\* remove a snapshot file they find.
ProcessInit ==
    /\ proc = "starting" /\ pc[1] = "boot"
    /\ LET initial == IF marker \/ (build = "manager" /\ dataFile)
                      THEN "recovering" ELSE "idle"
       IN  /\ currentState' = IF build = "manager" THEN initial ELSE "idle"
           /\ status' = NewStatus(IF build = "manager" THEN initial ELSE "idle")
           /\ state' = IF build = "simplified" THEN initial ELSE "idle"
    /\ dataFile' = (dataFile /\ (build = "manager" \/ marker))
    /\ Goto(1, "main")
    /\ UNCHANGED <<build, sideVars, proc, gen, calls, call, ret, dirty, lockVars,
                   inProgress, lastCS, scheduledFor, initiatedBy, reason, timer,
                   cancelChan, timerSt, chanSt, envVars, world, extraFiles, openFiles>>

\* IsCopyoverRecovery(), manager.go lines 160-165 and part_013 lines 614-618;
\* no recovery has run in this process yet, so isRecovering is false
IsCopyoverRecovery == marker \/ dataFile

\* The program's main after init(): it runs RecoverFromCopyover on thread 1
\* when either signal indicates a recovery, and otherwise serves at once.
\* Until then the process takes no operation.
MainStart ==
    /\ proc = "starting" /\ pc[1] = "main"
    /\ proc' = "running"
    /\ IF IsCopyoverRecovery
       THEN /\ Goto(1, IF build = "manager" THEN "rc_start" ELSE "rs_start")
            /\ call' = [call EXCEPT ![1] = [NoCall EXCEPT !.op = "recover"]]
       ELSE Goto(1, "idle") /\ UNCHANGED call
    /\ UNCHANGED <<build, sideVars, resVars, gen, calls, ret, dirty, lockVars,
                   mgrVars, simVars, envVars>>

\* The process is stopped and the server started again by hand: fresh
\* memory, an environment without the marker, the files as they were left.
Restart ==
    /\ pc[1] # "boot"
    /\ proc' = "starting"
    /\ pc' = [q \in Threads |-> IF q = 1 THEN "boot" ELSE "idle"]
    /\ call' = [q \in Threads |-> NoCall]
    /\ ret' = [q \in Threads |-> NoRet]
    /\ dirty' = [q \in Threads |-> FALSE]
    /\ calls' = 0
    /\ mu' = 0
    /\ mudLock' = 0
    /\ currentState' = "idle"
    /\ inProgress' = FALSE
    /\ status' = NewStatus("idle")
    /\ lastCS' = [from |-> "idle", to |-> "idle", err |-> FALSE, seq |-> 0]
    /\ state' = "idle"
    /\ scheduledFor' = "zero"
    /\ initiatedBy' = 0
    /\ reason' = ""
    /\ timer' = 0
    /\ cancelChan' = 0
    /\ timerSt' = [i \in DOMAIN timerSt |-> "none"]
    /\ chanSt' = [i \in DOMAIN chanSt |-> "none"]
    /\ events' = {}
    /\ cleanupCalls' = 0
    /\ prepareCalls' = 0
    /\ extraFiles' = <<>>
    /\ openFiles' = 0
    /\ marker' = FALSE
    /\ restorerCalls' = [r \in Restorers |-> 0]
    /\ UNCHANGED <<build, fdVars, modVars, saveVars, auxVars, gen, votes, world, dataFile>>

\* ================================================== the simplified manager
TimerIds == 1..MaxCalls

\* the timer / channel object a `time.NewTimer` / `make(chan)` allocates
FreshId == CHOOSE i \in TimerIds : timerSt[i] = "none" /\ \A j \in TimerIds : j < i => timerSt[j] # "none"

StartCopyover(p) ==
    /\ build = "simplified"
    /\ p \in Ops
    /\ pc[Spawned(p)] = "idle"
    /\ \E cd \in Countdowns, ib \in BOOLEAN, r \in ScheduleReasons :
        Begin(p, [NoCall EXCEPT !.op = "copyover", !.countdown = cd,
                                !.includeBuild = ib, !.reason = r], "cp_lock")
    /\ UNCHANGED <<lockVars, mgrVars, simVars, envVars, resVars, sideVars>>

\* Copyover, lines 117-174: one critical section decides and records; the
\* scheduled path then announces, fires the Scheduled event and starts
\* waitAndExecute; the immediate path goes on into execute
Copyover(p) ==
    /\ Running /\ pc[p] = "cp_lock"
    /\ mu = 0
    /\ IF state # "idle" \/ \A r \in CheckModuleVetoes(votes) : ~r.canProceed
       THEN /\ Return(p, "refused")
            /\ UNCHANGED <<dirty, simVars, events>>
       ELSE /\ initiatedBy' = p
            /\ reason' = call[p].reason
            /\ Wrote(p)
            /\ IF call[p].countdown > 0
               THEN /\ state' = "scheduled"
                    /\ scheduledFor' = "countdown"
                    /\ timer' = FreshId
                    /\ cancelChan' = FreshId
                    /\ timerSt' = [timerSt EXCEPT ![FreshId] = "armed"]
                    /\ chanSt' = [chanSt EXCEPT ![FreshId] = "open"]
                    /\ events' = events \cup
                         {[type |-> "Scheduled", reason |-> call[p].reason, by |-> p]}
                    /\ pc' = [pc EXCEPT ![p] = "idle", ![Spawned(p)] = "we_enter"]
                    /\ call' = [call EXCEPT ![p] = NoCall,
                          ![Spawned(p)] = [NoCall EXCEPT !.op = "wait",
                               !.includeBuild = call[p].includeBuild]]
                    /\ ret' = [ret EXCEPT ![p] = [op |-> "copyover", res |-> "nil"],
                                          ![Spawned(p)] = NoRet]
               ELSE /\ state' = "preparing"
                    /\ Goto(p, "ex_start")
                    /\ UNCHANGED <<scheduledFor, timer, cancelChan, timerSt, chanSt,
                                   events, call, ret>>
    /\ UNCHANGED <<build, sideVars, resVars, proc, gen, calls, lockVars, mgrVars, votes,
                   cleanupCalls, prepareCalls>>

\* the scheduled instant arrives: the runtime sends on timer.C
TimerExpires(k) ==
    /\ Running
    /\ timerSt[k] = "armed"
    /\ timerSt' = [timerSt EXCEPT ![k] = "fired"]
    /\ UNCHANGED <<ctlVars, sideVars, resVars, lockVars, mgrVars, state, scheduledFor, initiatedBy,
                   reason, timer, cancelChan, chanSt, envVars>>

\* waitAndExecute, line 300: the select evaluates m.timer.C and m.cancelChan
\* when the goroutine reaches it, and without the mutex
waitEnter(p) ==
    /\ Running /\ pc[p] = "we_enter"
    /\ call' = [call EXCEPT ![p].tmr = timer, ![p].chn = cancelChan]
    /\ Goto(p, "we_wait")
    /\ UNCHANGED <<build, sideVars, resVars, proc, gen, calls, ret, dirty, lockVars, mgrVars,
                   simVars, envVars>>

\* lines 301-314: whichever channel is ready; Go picks at random when both are
waitSelect(p) ==
    /\ Running /\ pc[p] = "we_wait"
    /\ \/ /\ timerSt[call[p].tmr] = "fired"
          /\ timerSt' = [timerSt EXCEPT ![call[p].tmr] = "drained"]
          /\ Goto(p, "ex_start")
          /\ UNCHANGED <<call, ret>>
       \/ /\ chanSt[call[p].chn] = "closed"
          /\ Return(p, "done")
          /\ UNCHANGED timerSt
    /\ UNCHANGED <<build, sideVars, resVars, proc, gen, calls, dirty, lockVars, mgrVars, state,
                   scheduledFor, initiatedBy, reason, timer, cancelChan, chanSt,
                   envVars>>

\* execute returns err: to Copyover's caller on the immediate path, to
\* waitAndExecute (lines 303-310) on the scheduled one
executeReturn(p) ==
    IF call[p].op = "wait"
    THEN Goto(p, "we_failed") /\ UNCHANGED <<call, ret>>
    ELSE Return(p, "error")

\* execute, lines 318-322
executeStart(p) ==
    /\ Running /\ pc[p] = "ex_start"
    /\ mu = 0
    /\ state' = "preparing"
    /\ Wrote(p)
    /\ Goto(p, IF call[p].includeBuild THEN "ex_build" ELSE "ex_lockmud")
    /\ UNCHANGED <<build, sideVars, resVars, proc, gen, calls, call, ret, lockVars, mgrVars,
                   scheduledFor, initiatedBy, reason, timer, cancelChan, timerSt,
                   chanSt, envVars>>

\* lines 324-342: the build, before the world lock; failure resets to Idle
executeBuild(p) ==
    /\ Running /\ pc[p] = "ex_build"
    /\ mu = 0
    /\ \E ok \in BOOLEAN :
         IF ok
         THEN /\ Goto(p, "ex_lockmud")
              /\ call' = [call EXCEPT ![p] = Ran(p, {"build"})]
              /\ UNCHANGED <<ret, state, dirty>>
         ELSE /\ state' = "idle"
              /\ Wrote(p)
              /\ IF call[p].op = "wait"
                 THEN /\ Goto(p, "we_failed")
                      /\ call' = [call EXCEPT ![p] = Failed(p, {"build"}, "build")]
                      /\ UNCHANGED ret
                 ELSE Return(p, "error")
    /\ UNCHANGED <<build, sideVars, resVars, proc, gen, calls, lockVars, mgrVars, scheduledFor,
                   initiatedBy, reason, timer, cancelChan, timerSt, chanSt, envVars>>

\* line 347: util.LockMud()
executeLockMud(p) ==
    /\ Running /\ pc[p] = "ex_lockmud"
    /\ mudLock = 0
    /\ mudLock' = p
    /\ Goto(p, "ex_gather")
    /\ UNCHANGED <<build, sideVars, resVars, proc, gen, calls, call, ret, dirty, mu, mgrVars,
                   simVars, envVars>>

\* lines 358-388: prepare modules, save users, gatherState (which replaces
\* m.extraFiles by a new list, line 481, filled by the gatherers), saveState;
\* a failed saveState returns through the deferred function
executeGather(p) ==
    /\ Running /\ pc[p] = "ex_gather"
    /\ mu = 0
    /\ prepareCalls' = prepareCalls + 1
    /\ \E n \in 0..MaxFiles :
         /\ extraFiles' = [i \in 1..n |-> "file"]
         /\ openFiles' = openFiles + n
    /\ \E ok \in BOOLEAN :
         /\ Goto(p, IF ok THEN "ex_executing" ELSE "ex_unlock")
         /\ dataFile' = (dataFile \/ ok)
         /\ call' = [call EXCEPT ![p] =
                IF ok THEN [Ran(p, {"prepare", "save", "gather", "write"})
                              EXCEPT !.world = world]
                ELSE [Failed(p, {"prepare", "save", "gather", "write"}, "write")
                              EXCEPT !.world = world]]
    /\ UNCHANGED <<build, sideVars, proc, gen, calls, ret, dirty, lockVars, mgrVars, simVars,
                   votes, events, cleanupCalls, world>>

\* lines 352-356: the deferred function of execute, registered after LockMud:
\* exec did not succeed, so the world is unlocked
executeDeferred(p) ==
    /\ Running /\ pc[p] = "ex_unlock"
    /\ mudLock' = 0
    /\ Goto(p, "ex_return")
    /\ UNCHANGED <<build, sideVars, resVars, proc, gen, calls, call, ret, dirty, mu, mgrVars,
                   simVars, envVars>>

\* execute has returned its error
executeReturns(p) ==
    /\ Running /\ pc[p] = "ex_return"
    /\ executeReturn(p)
    /\ UNCHANGED <<build, sideVars, resVars, proc, gen, calls, dirty, lockVars, mgrVars,
                   simVars, envVars>>

\* lines 390-406
executeExecuting(p) ==
    /\ Running /\ pc[p] = "ex_executing"
    /\ mu = 0
    /\ state' = "executing"
    /\ Wrote(p)
    /\ Goto(p, "ex_exec")
    /\ UNCHANGED <<build, sideVars, resVars, proc, gen, calls, call, ret, lockVars, mgrVars,
                   scheduledFor, initiatedBy, reason, timer, cancelChan, timerSt,
                   chanSt, envVars>>

\* lines 414-422 and executeNewProcess 560-603
executeExec(p) ==
    /\ Running /\ pc[p] = "ex_exec"
    /\ \/ /\ Goto(p, "ex_unlock")
          /\ call' = [call EXCEPT ![p] = Failed(p, {"exec"}, "exec")]
          /\ UNCHANGED <<build, sideVars, resVars, proc, gen, calls, ret, dirty, lockVars,
                         mgrVars, simVars, envVars>>
       \/ Successor

\* waitAndExecute, lines 303-310: the scheduled execution failed
waitFailed(p) ==
    /\ Running /\ pc[p] = "we_failed"
    /\ mu = 0
    /\ state' = "idle"
    /\ Wrote(p)
    /\ Return(p, "done")
    /\ UNCHANGED <<build, sideVars, resVars, proc, gen, calls, lockVars, mgrVars, scheduledFor,
                   initiatedBy, reason, timer, cancelChan, timerSt, chanSt, envVars>>

StartCancelSimplified(p) ==
    /\ build = "simplified"
    /\ \E r \in CancelReasons :
        Begin(p, [NoCall EXCEPT !.op = "cancel", !.reason = r], "cn_lock")
    /\ UNCHANGED <<lockVars, mgrVars, simVars, envVars, resVars, sideVars>>

\* Cancel, lines 177-198; closing a closed channel panics
Cancel(p) ==
    /\ Running /\ pc[p] = "cn_lock"
    /\ mu = 0
    /\ IF state # "scheduled"
       THEN /\ Return(p, "refused")
            /\ UNCHANGED <<proc, dirty, simVars>>
       ELSE /\ timerSt' = IF timer # 0 /\ timerSt[timer] = "armed"
                          THEN [timerSt EXCEPT ![timer] = "stopped"] ELSE timerSt
            /\ chanSt' = IF cancelChan # 0
                         THEN [chanSt EXCEPT ![cancelChan] = "closed"] ELSE chanSt
            /\ proc' = IF cancelChan # 0 /\ chanSt[cancelChan] = "closed"
                       THEN "crashed" ELSE proc
            /\ state' = "idle"
            /\ scheduledFor' = "zero"
            /\ Wrote(p)
            /\ Goto(p, "cn_cleanup")
            /\ UNCHANGED <<call, ret, initiatedBy, reason, timer, cancelChan>>
    /\ UNCHANGED <<build, sideVars, resVars, gen, calls, lockVars, mgrVars, envVars>>

\* lines 200-209: the announcement, CleanupModulesAfterCopyover, return nil
CancelNotify(p) ==
    /\ Running /\ pc[p] = "cn_cleanup"
    /\ events' = events \cup
         {[type |-> "Cancelled", reason |-> call[p].reason, by |-> initiatedBy]}
    /\ cleanupCalls' = cleanupCalls + 1
    /\ Return(p, "nil")
    /\ UNCHANGED <<build, sideVars, resVars, proc, gen, calls, dirty, lockVars, mgrVars, simVars,
                   votes, prepareCalls>>

StartReset(p) ==
    /\ build = "simplified"
    /\ Begin(p, [NoCall EXCEPT !.op = "reset"], "rt_lock")
    /\ UNCHANGED <<lockVars, mgrVars, simVars, envVars, resVars, sideVars>>

\* Reset, lines 707-740, one critical section: timer.Stop(), close of the
\* channel whenever the field is not nil, state Idle, the extra files closed,
\* the snapshot file removed. close() of a closed channel panics: the
\* deferred Unlock runs and nothing recovers the panic
Reset(p) ==
    /\ Running /\ pc[p] = "rt_lock"
    /\ mu = 0
    /\ timerSt' = IF timer # 0 /\ timerSt[timer] = "armed"
                  THEN [timerSt EXCEPT ![timer] = "stopped"] ELSE timerSt
    /\ IF cancelChan # 0 /\ chanSt[cancelChan] = "closed"
       THEN /\ proc' = "crashed"
            /\ Return(p, "panic")
            /\ UNCHANGED <<dirty, state, scheduledFor, chanSt, dataFile, extraFiles, openFiles>>
       ELSE /\ chanSt' = IF cancelChan # 0
                         THEN [chanSt EXCEPT ![cancelChan] = "closed"] ELSE chanSt
            /\ state' = "idle"
            /\ scheduledFor' = "zero"
            /\ openFiles' = openFiles - Len(extraFiles)
            /\ extraFiles' = <<>>
            /\ dataFile' = FALSE
            /\ Wrote(p)
            /\ Return(p, "nil")
            /\ UNCHANGED proc
    /\ UNCHANGED <<build, sideVars, gen, calls, lockVars, mgrVars, initiatedBy, reason, timer,
                   cancelChan, envVars, world>>

\* RecoverFromCopyover, lines 253-272: LockMud, loadState (a failure returns
\* with the file left in place), os.Remove
RecoverLoad(p) ==
    /\ Running /\ pc[p] = "rs_start"
    /\ mudLock = 0
    /\ \E loaded \in {FALSE, dataFile} :
         IF loaded
         THEN /\ mudLock' = p
              /\ dataFile' = FALSE
              /\ Goto(p, "rs_finish") /\ UNCHANGED <<call, ret>>
         ELSE Return(p, "error") /\ UNCHANGED <<mudLock, dataFile>>
    /\ UNCHANGED <<build, sideVars, proc, gen, calls, dirty, mu, mgrVars, simVars, envVars,
                   world, extraFiles, openFiles>>

\* lines 274-294: restorers, state = Idle, the deferred UnlockMud
RecoverReset(p) ==
    /\ Running /\ pc[p] = "rs_finish"
    /\ mu = 0
    /\ \E failing \in SUBSET Restorers : restorerCalls' = runRestorers(failing)
    /\ state' = "idle"
    /\ mudLock' = 0
    /\ Wrote(p)
    /\ Return(p, "nil")
    /\ UNCHANGED <<build, fdVars, modVars, saveVars, auxVars, marker, resVars, proc, gen, calls, mu, mgrVars,
                   scheduledFor,
                   initiatedBy, reason, timer, cancelChan, timerSt, chanSt, envVars>>

\* ===================== saveState: the snapshot file, written block by block
MaxSaves == 3        \* saveState calls in a behaviour
SnapshotLen == 3     \* blocks in a marshalled snapshot

CopyoverDataFile == "copyover.dat"
TempFile == "copyover.dat.tmp"
Paths == {CopyoverDataFile, TempFile}

\* a path holds no file, or the first len blocks of snapshot number ver
Absent == [ver |-> 0, len |-> 0]
Whole(f) == f = Absent \/ f.len = SnapshotLen

\* a saveState that writes the snapshot path itself
WritePathInPlace == CopyoverDataFile

\* manager.go lines 509-513: os.WriteFile goes to CopyoverDataFile + ".tmp"
WritePath == TempFile

SaveOff ==
    /\ savePc = "off"
    /\ files = [f \in Paths |-> Absent]
    /\ saveNo = 0
    /\ lastRead = Absent

\* saveState, lines 503-513: MarshalIndent, whose error returns at once;
\* then os.WriteFile opens the path with O_CREATE|O_TRUNC, or fails to
SaveBegin ==
    /\ savePc = "idle" /\ saveNo < MaxSaves
    /\ saveNo' = saveNo + 1
    /\ \E marshalled \in BOOLEAN, opened \in BOOLEAN :
         IF marshalled /\ opened
         THEN /\ files' = [files EXCEPT ![WritePath] = [ver |-> saveNo + 1, len |-> 0]]
              /\ savePc' = "write"
         ELSE UNCHANGED <<files, savePc>>
    /\ dataFile' = (files'[CopyoverDataFile] # Absent)
    /\ UNCHANGED <<besideSave, lastRead>>

\* os.WriteFile, line 511: the next block reaches the file, or the write
\* fails and saveState returns the error with the file as far as it got
SaveWrite ==
    /\ savePc = "write"
    /\ \E written \in BOOLEAN :
         IF written
         THEN /\ files' = [files EXCEPT ![WritePath].len = @ + 1]
              /\ savePc' = IF files[WritePath].len + 1 = SnapshotLen
                           THEN "rename" ELSE "write"
         ELSE savePc' = "idle" /\ UNCHANGED files
    /\ dataFile' = (files'[CopyoverDataFile] # Absent)
    /\ UNCHANGED <<besideSave, saveNo, lastRead>>

\* os.Rename, line 516: the snapshot path now names the written file, in one
\* step; or the rename fails and the snapshot path is untouched
SaveRename ==
    /\ savePc = "rename"
    /\ savePc' = "idle"
    /\ \E renamed \in BOOLEAN :
         IF renamed /\ WritePath # CopyoverDataFile
         THEN files' = [files EXCEPT ![CopyoverDataFile] = files[WritePath],
                                     ![WritePath] = Absent]
         ELSE UNCHANGED files
    /\ dataFile' = (files'[CopyoverDataFile] # Absent)
    /\ UNCHANGED <<besideSave, saveNo, lastRead>>

\* the process dies at any point of saveState; the files stay as they are
SaveCrash ==
    /\ savePc \in {"write", "rename"}
    /\ savePc' = "crashed"
    /\ UNCHANGED <<besideSave, dataFile, files, saveNo, lastRead>>

\* the server is started again after the crash
SaveRestart ==
    /\ savePc = "crashed"
    /\ savePc' = "idle"
    /\ UNCHANGED <<besideSave, dataFile, files, saveNo, lastRead>>

\* loadState, lines 520-534: a reader is given what the snapshot path holds
LoadState ==
    /\ savePc # "off"
    /\ lastRead' = files[CopyoverDataFile]
    /\ UNCHANGED <<besideSave, dataFile, files, saveNo, savePc>>

\* os.Remove(CopyoverDataFile): a recovery or a failed attempt removes the file
RemoveSnapshot ==
    /\ savePc = "idle"
    /\ files[CopyoverDataFile] # Absent
    /\ files' = [files EXCEPT ![CopyoverDataFile] = Absent]
    /\ dataFile' = FALSE
    /\ UNCHANGED <<besideSave, saveNo, savePc, lastRead>>

\* ================= manager.go: the history of completed copyovers
HistoryLimit == 100     \* line 858: the records kept
MaxAdds == 103          \* addToHistory calls in a behaviour
Limits == {0, 1, 2}     \* the limits GetHistory is asked for

Reverse(s) == [i \in 1..Len(s) |-> s[Len(s) + 1 - i]]
LastN(s, n) == SubSeq(s, Len(s) - n + 1, Len(s))

\* an addToHistory that drops the new record once the history is full
addToHistoryKeepingOldest(ring, record) ==
    IF Len(ring) >= HistoryLimit THEN ring ELSE Append(ring, record)

\* addToHistory, lines 855-860: append, then keep the last 100 records
addToHistoryRing(ring, record) ==
    LET appended == Append(ring, record)
    IN  IF Len(appended) > HistoryLimit
        THEN LastN(appended, HistoryLimit) ELSE appended

\* addToHistory, lines 848-878, under the manager mutex: the counter, the ID
\* of the record, the ring, the statistics
addToHistory ==
    /\ Len(added) < MaxAdds
    /\ LET record == [ID |-> historyCounter + 1, n |-> Len(added) + 1]
       IN  /\ historyCounter' = historyCounter + 1
           /\ historyRing' = addToHistoryRing(historyRing, record)
           /\ added' = Append(added, Len(added) + 1)
    /\ totalCopyovers' = totalCopyovers + 1
    /\ UNCHANGED <<besideHist, got>>

\* GetHistory, lines 825-845: the `limit` most recent records, newest first
GetHistory(limit) ==
    /\ historyCounter > 0
    /\ LET lim == IF limit <= 0 \/ limit > Len(historyRing)
                  THEN Len(historyRing) ELSE limit
       IN  got' = Reverse(LastN(historyRing, lim))
    /\ UNCHANGED <<besideHist, historyRing, historyCounter, totalCopyovers, added>>

HistOff ==
    /\ historyRing = <<>>
    /\ historyCounter = 0
    /\ totalCopyovers = 0
    /\ added = <<>>
    /\ got = <<>>

\* ================= events/copyover.go: the event queue across the exec
MaxEvents == 2       \* serialized events in a snapshot

\* the tags deserializeEvent has a case for, and tags it has none for
KnownTags == {"Quest", "EquipmentChange", "ItemOwnership"}
EventTags == KnownTags \cup {"PlayerSpawn"}
Priorities == {0, 1}

\* a serialized event; full: its Data holds the fields the Quest case reads
SerializedEvents ==
    [EventType : EventTags, Priority : Priorities, full : BOOLEAN]

\* deserializeEvent, lines 143-190: the switch returns a Quest when both
\* fields are there, an EquipmentChange or an ItemOwnership; whatever leaves
\* the switch becomes a GenericEventImpl of the same tag, and the error is
\* always nil
deserializeEvent(serialized) ==
    CASE serialized.EventType = "Quest" /\ serialized.full ->
            [impl |-> "Quest", Type |-> "Quest", err |-> FALSE]
      [] serialized.EventType = "EquipmentChange" ->
            [impl |-> "EquipmentChange", Type |-> "EquipmentChange", err |-> FALSE]
      [] serialized.EventType = "ItemOwnership" ->
            [impl |-> "ItemOwnership", Type |-> "ItemOwnership", err |-> FALSE]
      [] OTHER ->
            [impl |-> "GenericEventImpl", Type |-> serialized.EventType, err |-> FALSE]

\* RestoreEventState, lines 75-108: the order counter, an empty queue, then
\* every serialized event that deserializes without error is pushed with
\* its saved priority and order
RestoreEventState ==
    /\ evPc = "saved"
    /\ evPc' = "restored"
    /\ orderCounter' = Len(savedEvents)
    /\ globalQueue' =
         {[event |-> deserializeEvent(savedEvents[i]),
           priority |-> savedEvents[i].Priority,
           order |-> i] :
            i \in {j \in DOMAIN savedEvents : ~deserializeEvent(savedEvents[j]).err}}
    /\ UNCHANGED <<besideEv, savedEvents>>

EvOff ==
    /\ evPc = "off"
    /\ savedEvents = <<>>
    /\ globalQueue = {}
    /\ orderCounter = 0

\* ================= manager.go: announceCountdown
MaxCountdown == 125     \* the longest countdown asked for, in seconds

\* the remaining seconds at which the second loop announces (line 709)
CountdownMarks == (1..10) \cup {15, 30, 60}

Announce(template, at) == announced' = Append(announced, [template |-> template, at |-> at])

\* lines 683-693: the initial announcement, in minutes above 60 seconds, in
\* seconds above 10, none at 10 seconds or less
announceInitial ==
    /\ annPc = "start"
    /\ IF seconds > 10
       THEN Announce("announce", seconds)
       ELSE UNCHANGED announced
    /\ annPc' = "minutes"
    /\ UNCHANGED <<besideAnn, countdownFrom, seconds>>

\* lines 696-706: one turn of the first loop: sleep a second, announce when a
\* whole number of minutes remains; the loop ends at 60 seconds
announceMinute ==
    /\ annPc = "minutes"
    /\ IF seconds > 60 /\ seconds > 10
       THEN /\ seconds' = seconds - 1
            /\ IF (seconds - 1) % 60 = 0
               THEN Announce("announce", seconds - 1)
               ELSE UNCHANGED announced
            /\ UNCHANGED annPc
       ELSE /\ annPc' = "countdown"
            /\ UNCHANGED <<seconds, announced>>
    /\ UNCHANGED <<besideAnn, countdownFrom>>

\* lines 709-717: one turn of the second loop: announce at the marks, sleep
announceSecond ==
    /\ annPc = "countdown"
    /\ IF seconds > 0
       THEN /\ IF seconds <= 10 \/ seconds = 15 \/ seconds = 30 \/ seconds = 60
               THEN Announce("countdown", seconds)
               ELSE UNCHANGED announced
            /\ seconds' = seconds - 1
            /\ UNCHANGED annPc
       ELSE /\ annPc' = "pre"
            /\ UNCHANGED <<seconds, announced>>
    /\ UNCHANGED <<besideAnn, countdownFrom>>

\* lines 719-722: the final notice, return nil
announcePre ==
    /\ annPc = "pre"
    /\ Announce("pre", 0)
    /\ annPc' = "done"
    /\ UNCHANGED <<besideAnn, countdownFrom, seconds>>

AnnOff ==
    /\ annPc = "off"
    /\ countdownFrom = 0
    /\ seconds = 0
    /\ announced = <<>>

\* ================= parties/copyover.go: the party map across the exec
MaxUsers == 3        \* user ids 1..MaxUsers

Users == 1..MaxUsers
Elems(s) == {s[i] : i \in DOMAIN s}

\* a Party: a leader alone or with one more member, at most one pending
\* invite, the leader auto-attacking or not, a position for every member
Party(l, more, invites, attackers, pos) ==
    [LeaderUserId |-> l,
     UserIds |-> <<l>> \o more,
     InviteUserIds |-> invites,
     AutoAttackers |-> attackers,
     Position |-> [u \in {l} \cup Elems(more) |-> IF u = l THEN pos ELSE "middle"]]

AllParties ==
    {Party(l, more, invites, attackers, pos) :
        l \in Users,
        more \in {<<>>} \cup {<<u>> : u \in Users},
        invites \in {<<>>} \cup {<<u>> : u \in Users},
        attackers \in {<<>>, <<1>>, <<2>>, <<3>>},
        pos \in {"front", "middle"}}

WellFormed(p) ==
    /\ Len(p.UserIds) = Cardinality(Elems(p.UserIds))
    /\ Elems(p.InviteUserIds) \cap Elems(p.UserIds) = {}
    /\ Elems(p.AutoAttackers) \subseteq {p.LeaderUserId}

\* the party maps of a running server: parties that share no member, kept
\* under the id of their leader, or under the ids of all their members
PartyMaps ==
    LET parties == {p \in AllParties : WellFormed(p)}
        disjoint(P) == \A p, q \in P : p # q => Elems(p.UserIds) \cap Elems(q.UserIds) = {}
        sets == {P \in {{p, q} : p, q \in parties} \cup {{}} : disjoint(P)}
        of(P, u) == CHOOSE p \in P : u \in Elems(p.UserIds)
    IN  {[u \in {p.LeaderUserId : p \in P} |-> of(P, u)] : P \in sets}
        \cup {[u \in UNION {Elems(p.UserIds) : p \in P} |-> of(P, u)] : P \in sets}

\* GatherPartyState, lines 38-58: one PartyState per key of the map, with the
\* key as LeaderUserId and deep copies of the party's slices and positions
partyStateOf(key, party) == [party EXCEPT !.LeaderUserId = key]

\* RestorePartyState, lines 73-101: for each PartyState in turn a new Party,
\* entered under its LeaderUserId and under the id of every other member
RECURSIVE restorePartiesInto(_, _)
restorePartiesInto(list, map) ==
    IF list = <<>> THEN map
    ELSE LET party == Head(list)
             keys == {party.LeaderUserId} \cup Elems(party.UserIds)
         IN  restorePartiesInto(Tail(list),
                 [u \in DOMAIN map \cup keys |-> IF u \in keys THEN party ELSE map[u]])

restoreParties(list) == restorePartiesInto(list, <<>>)

\* GatherPartyState, lines 31-61; the map is walked in any order
GatherPartyState ==
    /\ partyPc \in {"run", "restored"}
    /\ \E order \in Perms(DOMAIN partyMap) :
         partyList' = [i \in DOMAIN order |-> partyStateOf(order[i], partyMap[order[i]])]
    /\ firstList' = IF partyPc = "run" THEN partyList' ELSE firstList
    /\ partyPc' = IF partyPc = "run" THEN "gathered" ELSE "again"
    /\ UNCHANGED <<besideParty, partyMap, origMap>>

\* RestorePartyState, lines 64-104, in the successor, whose map starts empty
RestorePartyState ==
    /\ partyPc = "gathered"
    /\ partyMap' = restoreParties(partyList)
    /\ partyPc' = "restored"
    /\ UNCHANGED <<besideParty, origMap, partyList, firstList>>

PartyOff ==
    /\ partyPc = "off"
    /\ partyMap = <<>>
    /\ origMap = <<>>
    /\ partyList = <<>>
    /\ firstList = <<>>

\* ============ the subsystems' blob files: gather writes, restore reads
MaxAttempts == 3     \* copyover attempts in a behaviour
MaxItems == 2        \* items of state a subsystem holds

Systems == {"EventQueue", "SpellBuff"}
NoBlob == [by |-> 0, items |-> 0]

\* SaveSpellBuffStateForCopyover, SaveEventStateForCopyover: with nothing
\* to save the function returns nil and leaves the file as it is; otherwise
\* os.WriteFile replaces it
SaveStateForCopyover(file, items, a) ==
    IF items = 0 THEN file ELSE [by |-> a, items |-> items]

\* the live state of a subsystem changes while the game runs
BlobWork ==
    /\ blobPc = "run"
    /\ \E s \in Systems, n \in 0..MaxItems :
        /\ n # live[s]
        /\ live' = [live EXCEPT ![s] = n]
    /\ UNCHANGED <<besideBlob, blobPc, attempt, blobFile, restoredBlob, startedBy>>

\* handleSystemsGatherState: every registered system's Gather, errors logged
handleSystemsGatherState ==
    /\ blobPc = "run"
    /\ attempt < MaxAttempts
    /\ attempt' = attempt + 1
    /\ blobFile' = [s \in Systems |->
                      SaveStateForCopyover(blobFile[s], live[s], attempt + 1)]
    /\ blobPc' = "gathered"
    /\ UNCHANGED <<besideBlob, live, restoredBlob, startedBy>>

\* the attempt fails after the gather (snapshot write, descriptors, exec):
\* InitiateCopyover returns the error; no blob file is touched
AttemptFails ==
    /\ blobPc = "gathered"
    /\ blobPc' = "run"
    /\ UNCHANGED <<besideBlob, attempt, live, blobFile, restoredBlob, startedBy>>

\* the exec succeeds: the successor starts with empty memory
AttemptExecs ==
    /\ blobPc = "gathered"
    /\ blobPc' = "successor"
    /\ startedBy' = attempt
    /\ live' = [s \in Systems |-> 0]
    /\ restoredBlob' = [s \in Systems |-> NoBlob]
    /\ UNCHANGED <<besideBlob, attempt, blobFile>>

\* handleSystemsRestoreState in the successor: every system's Restore reads
\* its file if there is one, restores from it and removes it
handleSystemsRestoreState ==
    /\ blobPc = "successor"
    /\ blobPc' = "run"
    /\ restoredBlob' = blobFile
    /\ live' = [s \in Systems |-> blobFile[s].items]
    /\ blobFile' = [s \in Systems |-> NoBlob]
    /\ UNCHANGED <<besideBlob, attempt, startedBy>>

BlobOff ==
    /\ blobPc = "off"
    /\ attempt = 0
    /\ live = [s \in Systems |-> 0]
    /\ blobFile = [s \in Systems |-> NoBlob]
    /\ restoredBlob = [s \in Systems |-> NoBlob]
    /\ startedBy = 0

\* ========= the operator's copyover command and the initiator in the status
MaxCmds == 3         \* copyover commands issued in a behaviour

Args == {"now", "0", "30", "300"}
NoOne == [InitiatedBy |-> 0, Reason |-> ""]
NoCmd == [by |-> 0, reason |-> "", countdown |-> 0]

\* the countdown the verb asks for: "now" is 0, "0" is the default of 10
CountdownOf(arg) ==
    CASE arg = "now" -> 0
      [] arg = "0"   -> 10
      [] arg = "30"  -> 30
      [] arg = "300" -> 300

ReasonOf(arg) ==
    IF arg = "now" THEN "Manual copyover by admin" ELSE "Scheduled copyover by admin"

\* Manager.GetStatus: a copy of *m.status, a value of its own
GetStatus == managerStatus

\* the command, `now` or a countdown: GetStatus, the two assignments to the
\* value it returned, the system event queued
CopyoverCommand ==
    /\ cmdPc = "idle"
    /\ cmds < MaxCmds
    /\ \E u \in Users, arg \in Args :
        /\ statusCopy' = [GetStatus EXCEPT !.InitiatedBy = u, !.Reason = ReasonOf(arg)]
        /\ issued' = [by |-> u, reason |-> ReasonOf(arg), countdown |-> CountdownOf(arg)]
    /\ cmds' = cmds + 1
    /\ cmdPc' = "queued"
    /\ UNCHANGED <<besideCmd, managerStatus, scheduledEvent, historyRecord>>

\* the queued system event is handled: InitiateCopyover(countdown), which
\* with a countdown fires CopyoverScheduled from m.status
SystemCopyover ==
    /\ cmdPc = "queued"
    /\ scheduledEvent' = IF issued.countdown > 0
                         THEN [InitiatedBy |-> managerStatus.InitiatedBy,
                               Reason |-> managerStatus.Reason]
                         ELSE scheduledEvent
    /\ cmdPc' = "started"
    /\ UNCHANGED <<besideCmd, cmds, managerStatus, statusCopy, issued, historyRecord>>

\* the copyover ends without replacing the process
CommandAttemptFails ==
    /\ cmdPc = "started"
    /\ cmdPc' = "idle"
    /\ UNCHANGED <<besideCmd, cmds, managerStatus, statusCopy, issued, scheduledEvent,
                   historyRecord>>

\* the successor: a new manager with a new status; RecoverFromCopyover
\* writes the history record from m.status (lines 450-461)
CommandRecovered ==
    /\ cmdPc = "started"
    /\ managerStatus' = NoOne
    /\ historyRecord' = [InitiatedBy |-> NoOne.InitiatedBy, Reason |-> NoOne.Reason]
    /\ cmdPc' = "recovered"
    /\ UNCHANGED <<besideCmd, cmds, statusCopy, issued, scheduledEvent>>

CmdOff ==
    /\ cmdPc = "off"
    /\ cmds = 0
    /\ managerStatus = NoOne
    /\ statusCopy = NoOne
    /\ issued = NoCmd
    /\ scheduledEvent = NoOne
    /\ historyRecord = NoOne

\* every further group but g is out of use
AuxOffBut(g) ==
    /\ g # "hist" => HistOff
    /\ g # "ev" => EvOff
    /\ g # "ann" => AnnOff
    /\ g # "party" => PartyOff
    /\ g # "blob" => BlobOff
    /\ g # "cmd" => CmdOff

AuxOff == AuxOffBut("none")

\* ============== connections.go: the descriptors handed to the successor
MaxConns == 2      \* connections open when the copyover gathers

ListenerNames == {"telnet", "web"}

\* what the listener map holds under a name: a *net.TCPListener, nil, a
\* listener of another type, or a TCP listener whose File() fails
ListenerKinds == {"tcp", "nil", "other", "nofile"}

\* a connection: logged-in telnet, logged-in telnet whose GetFileDescriptor
\* fails, logged-in websocket, or one that is not logged in / has no user
ConnKinds == {"telnet", "nofd", "websocket", "login"}

ListenerMaps == UNION {[S -> ListenerKinds] : S \in SUBSET ListenerNames}
ConnLists == UNION {[1..n -> ConnKinds] : n \in 0..MaxConns}

\* sort.Strings on a set of listener names
NameOrder == <<"telnet", "web">>
sortStrings(S) == SelectSeq(NameOrder, LAMBDA n : n \in S)

\* the socket of a listener / of a connection, and no open descriptor
ListenerFile(name) == [listener |-> name, conn |-> 0]
ConnFile(id) == [listener |-> "", conn |-> id]
NoFile == [listener |-> "", conn |-> 0]

NoPreservedState == [Listeners |-> {}, Connections |-> <<>>]
NoHistory == [ConnectionsSaved |-> 0, ConnectionsLost |-> 0]

\* lines 26-100, the loop of the listener gatherer: acc is the listener
\* states recorded and the files appended to manager.extraFiles so far
RECURSIVE listenerGatherer(_, _, _, _)
listenerGatherer(ls, names, fdIndex, acc) ==
    IF names = <<>> THEN acc
    ELSE LET name == Head(names) IN
         IF ls[name] = "tcp"
         THEN listenerGatherer(ls, Tail(names), fdIndex + 1,
                  [saved |-> acc.saved \cup {[name |-> name, FD |-> fdIndex]},
                   files |-> Append(acc.files, ListenerFile(name))])
         ELSE listenerGatherer(ls, Tail(names), fdIndex, acc)

\* lines 103-191, the loop of the connection gatherer
RECURSIVE connectionGatherer(_, _, _, _)
connectionGatherer(cs, i, fdIndex, acc) ==
    IF i > Len(cs) THEN acc
    ELSE CASE cs[i] = "telnet" ->
                connectionGatherer(cs, i + 1, fdIndex + 1,
                  [saved |-> Append(acc.saved,
                       [ConnectionID |-> i, Type |-> "telnet", FD |-> fdIndex]),
                   files |-> Append(acc.files, ConnFile(i))])
           [] cs[i] = "websocket" ->
                connectionGatherer(cs, i + 1, fdIndex,
                  [saved |-> Append(acc.saved,
                       [ConnectionID |-> i, Type |-> "websocket", FD |-> 0]),
                   files |-> acc.files])
           [] OTHER -> connectionGatherer(cs, i + 1, fdIndex, acc)

\* the first descriptor index the connection gatherer hands out (line 105)
connectionBase(ls) == 3 + Cardinality(DOMAIN ls)

\* os.NewFile(fd) in the successor: descriptor 3 + i is cmd.ExtraFiles[i]
osNewFile(fds, fd) == IF fd - 2 \in DOMAIN fds THEN fds[fd - 2] ELSE NoFile

\* lines 222-313, the loop of RecoverListeners
RECURSIVE recoverListeners(_, _, _, _, _)
recoverListeners(saved, names, fdIndex, fds, acc) ==
    IF names = <<>> THEN acc
    ELSE LET name == Head(names)
             st == CHOOSE x \in saved : x.name = name
             file == osNewFile(fds, fdIndex)
         IN  IF st.FD # fdIndex \/ file = NoFile
             THEN recoverListeners(saved, Tail(names), fdIndex + 1, fds, acc)
             ELSE recoverListeners(saved, Tail(names), fdIndex + 1, fds,
                      acc \cup {[rec |-> ListenerFile(name), file |-> file]})

\* lines 316-353 and the rest of the loop of RecoverConnections
RECURSIVE recoverConnections(_, _, _, _, _)
recoverConnections(saved, i, fdIndex, fds, acc) ==
    IF i > Len(saved) THEN acc
    ELSE LET st == saved[i]
             file == osNewFile(fds, fdIndex)
         IN  CASE st.Type = "websocket" ->
                    recoverConnections(saved, i + 1, fdIndex, fds, acc)
               [] st.Type # "websocket" /\ (st.FD # fdIndex \/ file = NoFile) ->
                    recoverConnections(saved, i + 1, fdIndex + 1, fds, acc)
               [] OTHER ->
                    recoverConnections(saved, i + 1, fdIndex + 1, fds,
                        acc \cup {[rec |-> ConnFile(st.ConnectionID), file |-> file]})

\* gatherState (part_013 lines 469-510) resets the list and runs the gatherers
\* in the order of their registration: listeners first
GatherListeners ==
    /\ fdPc = "gatherListeners"
    /\ LET names == sortStrings({n \in DOMAIN listeners : listeners[n] # "nil"})
           r == listenerGatherer(listeners, names, 3, [saved |-> {}, files |-> <<>>])
       IN  /\ preservedState' = [preservedState EXCEPT !.Listeners = r.saved]
           /\ extraFiles' = r.files
    /\ fdPc' = "gatherConnections"
    /\ UNCHANGED <<besideFd, world, dataFile, openFiles,
                   listeners, conns, inherited, recovered, history>>

GatherConnections ==
    /\ fdPc = "gatherConnections"
    /\ LET r == connectionGatherer(conns, 1, connectionBase(listeners),
                                   [saved |-> <<>>, files |-> extraFiles])
       IN  /\ preservedState' = [preservedState EXCEPT !.Connections = r.saved]
           /\ extraFiles' = r.files
    /\ fdPc' = "exec"
    /\ UNCHANGED <<besideFd, world, dataFile, openFiles,
                   listeners, conns, inherited, recovered, history>>

\* executeNewProcess: cmd.ExtraFiles = extraFiles; the snapshot carries the
\* records to the successor, whose memory is fresh
ExecWithFiles ==
    /\ fdPc = "exec"
    /\ inherited' = extraFiles
    /\ extraFiles' = <<>>
    /\ fdPc' = "recoverListeners"
    /\ UNCHANGED <<besideFd, world, dataFile, openFiles,
                   listeners, conns, preservedState, recovered, history>>

RecoverListeners ==
    /\ fdPc = "recoverListeners"
    /\ LET saved == preservedState.Listeners
           names == sortStrings({x.name : x \in saved})
       IN  recovered' = recoverListeners(saved, names, 3, inherited, recovered)
    /\ fdPc' = "recoverConnections"
    /\ UNCHANGED <<besideFd, resVars, listeners, conns, preservedState, inherited, history>>

RecoverConnections ==
    /\ fdPc = "recoverConnections"
    /\ LET saved == preservedState.Connections
       IN  recovered' = recoverConnections(saved, 1,
                            3 + Cardinality(preservedState.Listeners),
                            inherited, recovered)
    /\ fdPc' = "history"
    /\ UNCHANGED <<besideFd, resVars, listeners, conns, preservedState, inherited, history>>

\* manager.go lines 438-461: the Completed event and the history record
RecordHistory ==
    /\ fdPc = "history"
    /\ history' = [ConnectionsSaved |-> Len(preservedState.Connections),
                   ConnectionsLost |-> 0]
    /\ fdPc' = "done"
    /\ UNCHANGED <<besideFd, resVars, listeners, conns, preservedState, inherited, recovered>>

\* the connection variables while no descriptor hand-over is looked at
FdOff ==
    /\ fdPc = "off"
    /\ listeners = <<>>
    /\ conns = <<>>
    /\ preservedState = NoPreservedState
    /\ inherited = <<>>
    /\ recovered = {}
    /\ history = NoHistory

\* ======================================= module.go: the module registry
MaxRegs == 3       \* RegisterModule / UnregisterModule calls over one behaviour
MaxInstances == 2  \* module objects that may ask to be registered
MaxValue == 2      \* module states 1..MaxValue; 0 is "no state" (nil)

RegNames == Modules \cup {""}
Instances == 1..MaxInstances
ModValues == 0..MaxValue
NoReg == [op |-> "none", name |-> "", module |-> 0, err |-> FALSE]

\* a RegisterModule that stores the module whatever the registry holds
RegisterModuleReplacing(name, inst, v) ==
    /\ modPc = "run"
    /\ regCalls < MaxRegs
    /\ regCalls' = regCalls + 1
    /\ regResult' = [op |-> "RegisterModule", name |-> name, module |-> inst,
                     err |-> (name = "" \/ name \in DOMAIN participants)]
    /\ participants' = [n \in DOMAIN participants \cup {name} |->
                           IF n = name THEN inst ELSE participants[n]]
    /\ modState' = [n \in DOMAIN modState \cup {name} |->
                           IF n = name THEN v ELSE modState[n]]
    /\ regOrder' = Append(SelectSeq(regOrder, LAMBDA n : n # name), name)
    /\ UNCHANGED <<besideMod, regLockVars, modPc, states, returned, restoredWith, fanOut>>

\* lines 51-66: RegisterModule, under the registry mutex; v is the state the
\* module holds when it registers
RegisterModule(name, inst, v) ==
    /\ modPc = "run"
    /\ regCalls < MaxRegs
    /\ regCalls' = regCalls + 1
    /\ IF name = "" \/ name \in DOMAIN participants
       THEN /\ regResult' = [op |-> "RegisterModule", name |-> name,
                             module |-> inst, err |-> TRUE]
            /\ UNCHANGED <<participants, modState, regOrder>>
       ELSE /\ regResult' = [op |-> "RegisterModule", name |-> name,
                             module |-> inst, err |-> FALSE]
            /\ participants' = participants @@ (name :> inst)
            /\ modState' = modState @@ (name :> v)
            /\ regOrder' = Append(regOrder, name)
    /\ UNCHANGED <<besideMod, regLockVars, modPc, states, returned, restoredWith, fanOut>>

\* lines 69-75: UnregisterModule
UnregisterModule(name) ==
    /\ modPc = "run"
    /\ regCalls < MaxRegs
    /\ regCalls' = regCalls + 1
    /\ participants' = [n \in DOMAIN participants \ {name} |-> participants[n]]
    /\ modState' = [n \in DOMAIN modState \ {name} |-> modState[n]]
    /\ states' = [n \in DOMAIN states \ {name} |-> states[n]]
    /\ regResult' = [op |-> "UnregisterModule", name |-> name, module |-> 0,
                     err |-> FALSE]
    /\ regOrder' = SelectSeq(regOrder, LAMBDA n : n # name)
    /\ UNCHANGED <<besideMod, regLockVars, modPc, returned, restoredWith, fanOut>>

NoFanOut == [op |-> "none", visited |-> <<>>, failed |-> {}, err |-> ""]

\* the module whose error a fan-out over `order` keeps as firstError, "" for nil
firstError(order, failing) ==
    LET bad == {i \in DOMAIN order : order[i] \in failing} IN
    IF bad = {} THEN ""
    ELSE order[CHOOSE i \in bad : \A j \in bad : i <= j]

\* a GatherModuleStates that stores into the map of the gather before
GatherModuleStatesKeeping ==
    /\ modPc \in {"run", "gathered"}
    /\ \E order \in Perms(DOMAIN participants), failing \in SUBSET DOMAIN participants :
         LET kept == {n \in DOMAIN participants \ failing : modState[n] # 0} IN
         /\ states' = [n \in kept \cup DOMAIN states |->
                          IF n \in kept THEN modState[n] ELSE states[n]]
         /\ returned' = [n \in kept |-> modState[n]]
         /\ fanOut' = [op |-> "gather", visited |-> order, failed |-> failing,
                       err |-> ""]
    /\ modPc' = "gathered"
    /\ UNCHANGED <<besideMod, regLockVars, regCalls, participants, modState, restoredWith,
                   regResult, regOrder>>

\* lines 116-140 and the module gatherer of init (lines 213-232):
\* GatherModuleStates replaces the state map and walks the participants map
\* (in the order Go's map iteration happens to give); it keeps the state of
\* each module whose GatherState gave a non-nil state without error and
\* returns nil.  The list the gatherer builds from the map is dropped by
\* gatherState (manager.go line 495, `_, err := gatherer()`).
GatherModuleStates ==
    /\ modPc \in {"run", "gathered"}
    /\ \E order \in Perms(DOMAIN participants), failing \in SUBSET DOMAIN participants :
         LET kept == {n \in DOMAIN participants \ failing : modState[n] # 0} IN
         /\ states' = [n \in kept |-> modState[n]]
         /\ returned' = [n \in kept |-> modState[n]]
         /\ fanOut' = [op |-> "gather", visited |-> order, failed |-> failing,
                       err |-> ""]
    /\ modPc' = "gathered"
    /\ UNCHANGED <<besideMod, regLockVars, regCalls, participants, modState, restoredWith,
                   regResult, regOrder>>

\* the exec: the successor starts with fresh memory; its modules register
\* again, each without state, and the registry's state map is new
ExecModules ==
    /\ modPc = "gathered"
    /\ states' = <<>>
    /\ modState' = [n \in DOMAIN participants |-> 0]
    /\ restoredWith' = <<>>
    /\ fanOut' = NoFanOut
    /\ modPc' = "successor"
    /\ UNCHANGED <<besideMod, regLockVars, regCalls, participants, returned, regResult, regOrder>>

\* a RestoreModuleStates that returns at the first failing RestoreState
RestoreModuleStatesStopping ==
    /\ modPc \in {"gathered", "successor"}
    /\ LET having == DOMAIN participants \cap DOMAIN states IN
       \E order \in Perms(having), failing \in SUBSET having :
         LET bad == {i \in DOMAIN order : order[i] \in failing}
             last == IF bad = {} THEN Len(order)
                     ELSE CHOOSE i \in bad : \A j \in bad : i <= j
             seen == {order[i] : i \in 1..last}
         IN
         /\ restoredWith' = [n \in seen |-> states[n]]
         /\ modState' = [n \in DOMAIN modState |->
                            IF n \in seen \ failing THEN states[n] ELSE modState[n]]
         /\ fanOut' = [op |-> "restore", visited |-> SubSeq(order, 1, last),
                       failed |-> failing \cap seen, err |-> firstError(order, failing)]
    /\ modPc' = IF modPc = "successor" THEN "restored" ELSE modPc
    /\ UNCHANGED <<besideMod, regLockVars, regCalls, participants, states, returned, regResult,
                   regOrder>>

\* lines 143-164 and the module restorer of init (lines 234-241):
\* RestoreModuleStates walks the participants map and hands each module the
\* state stored under its name; a module without an entry is skipped, a
\* failing RestoreState is logged and the first such error is returned
RestoreModuleStates ==
    /\ modPc \in {"gathered", "successor"}
    /\ LET having == DOMAIN participants \cap DOMAIN states IN
       \E order \in Perms(having), failing \in SUBSET having :
         /\ restoredWith' = [n \in having |-> states[n]]
         /\ modState' = [n \in DOMAIN modState |->
                            IF n \in having \ failing THEN states[n] ELSE modState[n]]
         /\ fanOut' = [op |-> "restore", visited |-> order, failed |-> failing,
                       err |-> firstError(order, failing)]
    /\ modPc' = IF modPc = "successor" THEN "restored" ELSE modPc
    /\ UNCHANGED <<besideMod, regLockVars, regCalls, participants, states, returned, regResult,
                   regOrder>>

\* ---------------------------- module.go: moduleRegistry.mu, step by step
\* goroutine 1 runs the fan-outs, goroutine 2 calls the registry meanwhile
Goroutines == {1, 2}

\* GatherModuleStates walks the map under mu.Lock (line 118), the other
\* fan-outs under mu.RLock (lines 91, 143, 168, 187)
FanOps == {"veto", "gather", "restore", "prepare", "cleanup"}

\* RegisterModule and UnregisterModule take mu.Lock (lines 52, 70),
\* GetRegisteredModules takes mu.RLock (line 79)
WriterCalls == {"register", "unregister"}
RegistryCalls ==
    {[op |-> "register", name |-> n] : n \in RegNames} \cup
    {[op |-> "unregister", name |-> n] : n \in Modules} \cup
    {[op |-> "get", name |-> ""]}
NoWait == [op |-> "none", name |-> ""]
NoFan == [op |-> "none", start |-> {}, todo |-> {}, seen |-> <<>>]

\* sync.RWMutex: Lock waits for every holder, the caller itself included;
\* RLock waits for a writer that holds the mutex or is waiting for it
CanLock(g) == fan.op = "none"
CanRLock(g) ==
    /\ fan.op # "gather"
    /\ \A h \in Goroutines \ {g} : waiting[h].op \notin WriterCalls

\* a fan-out takes the mutex and starts to range over the participants
FanOutBegin(op) ==
    /\ modPc = "locks"
    /\ fan.op = "none"
    /\ waiting[1].op = "none"
    /\ IF op = "gather" THEN CanLock(1) ELSE CanRLock(1)
    /\ fan' = [op |-> op, start |-> DOMAIN participants,
               todo |-> DOMAIN participants, seen |-> <<>>]
    /\ UNCHANGED <<besideMod, modPc, regCalls, participants, states, modState,
                   returned, restoredWith, regResult, regOrder, fanOut, waiting>>

\* the callback of module m runs (CanCopyover, GatherState, RestoreState,
\* PrepareCopyover or CleanupCopyover); it may call the registry (c)
FanOutVisit(m, c) ==
    /\ fan.op # "none"
    /\ m \in fan.todo
    /\ m \in DOMAIN participants
    /\ waiting[1].op = "none"
    /\ c # NoWait => regCalls < MaxRegs
    /\ regCalls' = IF c # NoWait THEN regCalls + 1 ELSE regCalls
    /\ fan' = [fan EXCEPT !.todo = @ \ {m}, !.seen = Append(@, m)]
    /\ waiting' = [waiting EXCEPT ![1] = c]
    /\ UNCHANGED <<besideMod, modPc, participants, states, modState, returned,
                   restoredWith, regResult, regOrder, fanOut>>

\* the range loop is over, the deferred Unlock / RUnlock runs
FanOutEnd ==
    /\ fan.op # "none"
    /\ fan.todo \cap DOMAIN participants = {}
    /\ waiting[1].op = "none"
    /\ fanOut' = [op |-> fan.op, visited |-> fan.seen, failed |-> {}, err |-> ""]
    /\ fan' = NoFan
    /\ UNCHANGED <<besideMod, modPc, regCalls, participants, states, modState,
                   returned, restoredWith, regResult, regOrder, waiting>>

\* another goroutine calls the registry
RegistryCall(c) ==
    /\ modPc = "locks"
    /\ waiting[2].op = "none"
    /\ regCalls < MaxRegs
    /\ regCalls' = regCalls + 1
    /\ waiting' = [waiting EXCEPT ![2] = c]
    /\ UNCHANGED <<besideMod, modPc, participants, states, modState, returned,
                   restoredWith, regResult, regOrder, fanOut, fan>>

\* the call of goroutine g gets the mutex, does its work (lines 55-65,
\* 73-74, 82-86) and returns
RegistryCallReturns(g) ==
    /\ waiting[g].op # "none"
    /\ IF waiting[g].op \in WriterCalls THEN CanLock(g) ELSE CanRLock(g)
    /\ LET c == waiting[g]
           rejected == c.name = "" \/ c.name \in DOMAIN participants
       IN  CASE c.op = "register" /\ ~rejected ->
                  /\ participants' = participants @@ (c.name :> g)
                  /\ modState' = modState @@ (c.name :> 0)
                  /\ regOrder' = Append(regOrder, c.name)
                  /\ UNCHANGED states
             [] c.op = "unregister" ->
                  /\ participants' = [n \in DOMAIN participants \ {c.name} |->
                                         participants[n]]
                  /\ modState' = [n \in DOMAIN modState \ {c.name} |-> modState[n]]
                  /\ states' = [n \in DOMAIN states \ {c.name} |-> states[n]]
                  /\ regOrder' = SelectSeq(regOrder, LAMBDA n : n # c.name)
             [] OTHER ->
                  UNCHANGED <<participants, modState, states, regOrder>>
    /\ waiting' = [waiting EXCEPT ![g] = NoWait]
    /\ UNCHANGED <<besideMod, modPc, regCalls, returned, restoredWith, regResult,
                   fanOut, fan>>

\* the registry variables while the registry is not looked at
ModOff ==
    /\ modPc = "off"
    /\ regCalls = 0
    /\ participants = <<>>
    /\ states = <<>>
    /\ modState = <<>>
    /\ returned = <<>>
    /\ restoredWith = <<>>
    /\ regResult = NoReg
    /\ regOrder = <<>>
    /\ fanOut = NoFanOut
    /\ fan = NoFan
    /\ waiting = [g \in Goroutines |-> NoWait]

\* ===================================================== the specification
\* The memory of a process of either build whose init() found neither the
\* inheritance marker nor a snapshot file: the phase Idle; V is the set of
\* module answers considered.
FreshMemory(V) ==
    /\ build \in Builds
    /\ gen = 0
    /\ calls = 0
    /\ call = [p \in Threads |-> NoCall]
    /\ ret = [p \in Threads |-> NoRet]
    /\ dirty = [p \in Threads |-> FALSE]
    /\ mu = 0
    /\ mudLock = 0
    /\ currentState = "idle"
    /\ inProgress = FALSE
    /\ status = NewStatus("idle")
    /\ lastCS = [from |-> "idle", to |-> "idle", err |-> FALSE, seq |-> 0]
    /\ state = "idle"
    /\ scheduledFor = "zero"
    /\ initiatedBy = 0
    /\ reason = ""
    /\ timer = 0
    /\ cancelChan = 0
    /\ timerSt = [i \in TimerIds |-> "none"]
    /\ chanSt = [i \in TimerIds |-> "none"]
    /\ votes \in V
    /\ events = {}
    /\ cleanupCalls = 0
    /\ prepareCalls = 0
    /\ world = 0
    /\ extraFiles = <<>>
    /\ openFiles = 0
    /\ restorerCalls = [r \in Restorers |-> 0]

\* A cold start without a snapshot file: every goroutine idle
InitManager(V) ==
    /\ FreshMemory(V)
    /\ proc = "running"
    /\ pc = [p \in Threads |-> "idle"]
    /\ dataFile = FALSE
    /\ marker = FALSE
    /\ SaveOff
    /\ AuxOff

InitWith(V) == InitManager(V) /\ FdOff /\ ModOff

Init == InitWith(RegisteredVotes)

NextManager ==
    \E p \in Threads :
        \/ StartInitiate(p)
        \/ InitiateCheck(p)
        \/ InitiateVetoRead(p)
        \/ InitiateVetoAppend(p)
        \/ InitiateLock(p)
        \/ InitiateFirst(p)
        \/ InitiateAnnouncing(p)
        \/ InitiateCountdown(p)
        \/ InitiateBuild(p)
        \/ InitiateFailed(p)
        \/ InitiateSaving(p)
        \/ InitiateSave(p)
        \/ InitiateGathering(p)
        \/ InitiateGather(p)
        \/ InitiateExecuting(p)
        \/ InitiateExec(p)
        \/ InitiateDefer(p)
        \/ InitiateDeferIdle(p)
        \/ StartSchedule(p)
        \/ ScheduleCheck(p)
        \/ ScheduleLock(p)
        \/ ScheduleChange(p)
        \/ ScheduleArm(p)
        \/ TimerFires(p)
        \/ StartCancel(p)
        \/ CancelCopyover(p)
        \/ RecoverStart(p)
        \/ RecoverFinish(p)

NextSimplified ==
    \/ \E p \in Threads :
        \/ StartCopyover(p)
        \/ Copyover(p)
        \/ waitEnter(p)
        \/ waitSelect(p)
        \/ executeStart(p)
        \/ executeBuild(p)
        \/ executeLockMud(p)
        \/ executeGather(p)
        \/ executeDeferred(p)
        \/ executeReturns(p)
        \/ executeExecuting(p)
        \/ executeExec(p)
        \/ waitFailed(p)
        \/ StartCancelSimplified(p)
        \/ Cancel(p)
        \/ CancelNotify(p)
        \/ RecoverLoad(p)
        \/ RecoverReset(p)
    \/ \E k \in TimerIds : TimerExpires(k)

Next == NextManager \/ NextSimplified

Spec == Init /\ [][Next]_vars

\* Go's scheduler runs every goroutine that can run: the program does not
\* stop while some step is possible
FairSpec == Spec /\ WF_vars(Next)

\* The admission of a copyover under every combination of module answers:
\* the steps of InitiateCopyover and Copyover up to and including the
\* decision taken on CheckModuleVetoes
InitVeto == InitWith(AllVotes)

NextVeto ==
    \E p \in Threads :
        \/ StartInitiate(p)
        \/ InitiateCheck(p)
        \/ InitiateVetoRead(p)
        \/ InitiateVetoAppend(p)
        \/ InitiateLock(p)
        \/ StartCopyover(p)
        \/ Copyover(p)

SpecVeto == InitVeto /\ [][NextVeto]_vars

\* The world around the manager: a user command or a round tick runs under
\* the world lock (util.LockMud ... util.UnlockMud) and mutates the world.
WorldTick ==
    /\ Running
    /\ mudLock = 0
    /\ world < MaxTicks
    /\ world' = world + 1
    /\ UNCHANGED <<ctlVars, sideVars, lockVars, mgrVars, simVars, envVars, dataFile,
                   extraFiles, openFiles>>

NextWorld == Next \/ WorldTick

SpecWorld == Init /\ [][NextWorld]_vars

\* The hand-over of descriptors on its own: one gather, exec and recovery
\* for every listener map and every list of connections within the bounds.
InitFd ==
    /\ InitManager({v \in RegisteredVotes : NotReady(v) = {}})
    /\ build = "simplified"
    /\ fdPc = "gatherListeners"
    /\ listeners \in ListenerMaps
    /\ conns \in ConnLists
    /\ preservedState = NoPreservedState
    /\ inherited = <<>>
    /\ recovered = {}
    /\ history = NoHistory
    /\ ModOff

NextFd ==
    \/ GatherListeners
    \/ GatherConnections
    \/ ExecWithFiles
    \/ RecoverListeners
    \/ RecoverConnections
    \/ RecordHistory

SpecFd == InitFd /\ [][NextFd]_vars

\* The start of a process, with or without the marker and the snapshot file:
\* init(), the recovery, the admission of operations afterwards, and
\* restarts by hand.
InitBoot ==
    /\ FreshMemory(RegisteredVotes)
    /\ proc = "starting"
    /\ pc = [p \in Threads |-> IF p = 1 THEN "boot" ELSE "idle"]
    /\ dataFile \in BOOLEAN
    /\ marker \in BOOLEAN
    /\ FdOff
    /\ ModOff
    /\ SaveOff
    /\ AuxOff

NextBoot ==
    \/ ProcessInit
    \/ MainStart
    \/ Restart
    \/ \E p \in Threads :
          \/ RecoverStart(p)
          \/ RecoverFinish(p)
          \/ RecoverLoad(p)
          \/ RecoverReset(p)
    \/ NextVeto

SpecBoot == InitBoot /\ [][NextBoot]_vars

\* saveState on its own: saves, crashes at any point of a save, restarts,
\* readers of the snapshot path and removals of the file.
InitSave ==
    /\ FreshMemory({v \in RegisteredVotes : NotReady(v) = {}})
    /\ proc = "running"
    /\ pc = [p \in Threads |-> "idle"]
    /\ dataFile = FALSE
    /\ marker = FALSE
    /\ FdOff
    /\ ModOff
    /\ savePc = "idle"
    /\ files = [f \in Paths |-> Absent]
    /\ saveNo = 0
    /\ lastRead = Absent
    /\ AuxOff

\* A manager at rest, for the operations that are checked on their own
\* with the group g of variables.
AuxBase(g) ==
    /\ FreshMemory({v \in RegisteredVotes : NotReady(v) = {}})
    /\ build = "manager"
    /\ proc = "running"
    /\ pc = [p \in Threads |-> "idle"]
    /\ dataFile = FALSE
    /\ marker = FALSE
    /\ FdOff
    /\ ModOff
    /\ SaveOff
    /\ AuxOffBut(g)

\* The history on its own: addToHistory calls and GetHistory calls.
InitHistory == AuxBase("hist") /\ HistOff

NextHistory ==
    \/ addToHistory
    \/ \E limit \in Limits : GetHistory(limit)

SpecHistory == InitHistory /\ [][NextHistory]_vars

\* The event queue on its own: the successor restores a saved queue.  The
\* order value of the i-th saved event is i.
InitEvents ==
    /\ AuxBase("ev")
    /\ evPc = "saved"
    /\ savedEvents \in UNION {[1..n -> SerializedEvents] : n \in 0..MaxEvents}
    /\ globalQueue = {}
    /\ orderCounter = 0

NextEvents == RestoreEventState

SpecEvents == InitEvents /\ [][NextEvents]_vars

\* announceCountdown on its own, for every countdown up to MaxCountdown.
InitAnnounce ==
    /\ AuxBase("ann")
    /\ annPc = "start"
    /\ countdownFrom \in 1..MaxCountdown
    /\ seconds = countdownFrom
    /\ announced = <<>>

NextAnnounce ==
    \/ announceInitial
    \/ announceMinute
    \/ announceSecond
    \/ announcePre

SpecAnnounce == InitAnnounce /\ [][NextAnnounce]_vars

\* The party map on its own: gather, restore in the successor, gather again.
InitParties ==
    /\ AuxBase("party")
    /\ partyPc = "run"
    /\ partyMap \in PartyMaps
    /\ origMap = partyMap
    /\ partyList = <<>>
    /\ firstList = <<>>

NextParties ==
    \/ GatherPartyState
    \/ RestorePartyState

SpecParties == InitParties /\ [][NextParties]_vars

\* the manager with the simplified manager's Reset among its calls
NextReset ==
    \/ Next
    \/ \E p \in Threads : StartReset(p)
    \/ \E p \in Threads : Reset(p)

SpecReset == Init /\ [][NextReset]_vars

\* gather, failure or exec, and restore of the subsystems' blob files
InitBlobs ==
    /\ AuxBase("blob")
    /\ blobPc = "run"
    /\ attempt = 0
    /\ live \in [Systems -> 0..MaxItems]
    /\ blobFile = [s \in Systems |-> NoBlob]
    /\ restoredBlob = [s \in Systems |-> NoBlob]
    /\ startedBy = 0

NextBlobs ==
    \/ BlobWork
    \/ handleSystemsGatherState
    \/ AttemptFails
    \/ AttemptExecs
    \/ handleSystemsRestoreState

SpecBlobs == InitBlobs /\ [][NextBlobs]_vars

\* the operator's command, the handling of its event, failure or recovery
InitCommand ==
    /\ AuxBase("cmd")
    /\ cmdPc = "idle"
    /\ cmds = 0
    /\ managerStatus = NoOne
    /\ statusCopy = NoOne
    /\ issued = NoCmd
    /\ scheduledEvent = NoOne
    /\ historyRecord = NoOne

NextCommand ==
    \/ CopyoverCommand
    \/ SystemCopyover
    \/ CommandAttemptFails
    \/ CommandRecovered

SpecCommand == InitCommand /\ [][NextCommand]_vars

NextSave ==
    \/ SaveBegin
    \/ SaveWrite
    \/ SaveRename
    \/ SaveCrash
    \/ SaveRestart
    \/ LoadState
    \/ RemoveSnapshot

SpecSave == InitSave /\ [][NextSave]_vars

\* The module registry on its own: registrations, then one gather, exec and
\* restore.
InitModules ==
    /\ InitManager({v \in RegisteredVotes : NotReady(v) = {}})
    /\ build = "manager"
    /\ FdOff
    /\ modPc = "run"
    /\ regCalls = 0
    /\ participants = <<>>
    /\ states = <<>>
    /\ modState = <<>>
    /\ returned = <<>>
    /\ restoredWith = <<>>
    /\ regResult = NoReg
    /\ regOrder = <<>>
    /\ fanOut = NoFanOut
    /\ fan = NoFan
    /\ waiting = [g \in Goroutines |-> NoWait]

NextModules ==
    \/ \E name \in RegNames, inst \in Instances, v \in ModValues :
          RegisterModule(name, inst, v)
    \/ \E name \in Modules : UnregisterModule(name)
    \/ GatherModuleStates
    \/ ExecModules
    \/ RestoreModuleStates

SpecModules == InitModules /\ [][NextModules]_vars

\* The registry mutex: fan-outs over an already filled registry while the
\* callbacks and another goroutine call the registry.
InitLocks ==
    /\ InitManager({v \in RegisteredVotes : NotReady(v) = {}})
    /\ build = "manager"
    /\ FdOff
    /\ modPc = "locks"
    /\ regCalls = 0
    /\ \E S \in SUBSET Modules :
         /\ participants = [n \in S |-> 1]
         /\ modState = [n \in S |-> 0]
         /\ regOrder \in Perms(S)
    /\ states = <<>>
    /\ returned = <<>>
    /\ restoredWith = <<>>
    /\ regResult = NoReg
    /\ fanOut = NoFanOut
    /\ fan = NoFan
    /\ waiting = [g \in Goroutines |-> NoWait]

NextLocks ==
    \/ \E op \in FanOps : FanOutBegin(op)
    \/ \E m \in Modules, c \in RegistryCalls \cup {NoWait} : FanOutVisit(m, c)
    \/ FanOutEnd
    \/ \E c \in RegistryCalls : RegistryCall(c)
    \/ \E g \in Goroutines : RegistryCallReturns(g)

SpecLocks == InitLocks /\ [][NextLocks]_vars

\* ============================================================ properties
\* the edges of the transition graph, written out
PermittedEdges ==
    {<<"idle", "scheduled">>, <<"idle", "building">>, <<"idle", "recovering">>,
     <<"scheduled", "announcing">>, <<"scheduled", "cancelling">>,
     <<"announcing", "building">>, <<"announcing", "cancelling">>,
     <<"building", "saving">>, <<"building", "failed">>, <<"building", "cancelling">>,
     <<"saving", "gathering">>, <<"saving", "failed">>,
     <<"gathering", "executing">>, <<"gathering", "failed">>,
     <<"executing", "recovering">>, <<"executing", "failed">>,
     <<"recovering", "idle">>, <<"recovering", "failed">>,
     <<"cancelling", "idle">>, <<"failed", "idle">>}

SequenceSteps ==
    {"ic_build", "ic_saving", "ic_save", "ic_gathering", "ic_gather",
     "ic_executing", "ic_exec",
     "ex_start", "ex_build", "ex_lockmud", "ex_gather", "ex_executing", "ex_exec"}

InSequence == {p \in Threads : pc[p] \in SequenceSteps}

\* C2: under any interleaving of initiate, schedule and cancel calls at most
\* one copyover sequence is active at a time: no two goroutines are carrying
\* out a sequence at once.
C2_OneSequenceActive == Cardinality(InSequence) <= 1

\* two goroutines inside the sequence at once: one holds the world lock and
\* is about to exec while the other is building
C2_TwoSequences ==
    \E p, q \in Threads :
        /\ p # q
        /\ pc[p] = "ex_exec" /\ mudLock = p
        /\ pc[q] = "ex_build"

\* C3: once a cancel has returned success for a pending copyover and no
\* other initiate or schedule was issued (the cancelled one and the cancel
\* are the only calls made), the copyover does not proceed: no goroutine is
\* in the sequence and the machine is in none of its working phases.
C3_CancelledNeverProceeds ==
    \A p \in Ops :
        (calls = 2 /\ ret[p] = [op |-> "cancel", res |-> "nil"]) =>
            /\ InSequence = {}
            /\ state \notin {"preparing", "executing"}
            /\ currentState \notin {"building", "saving", "gathering", "executing"}

\* a cancel has returned success and the cancelled copyover is executing
C3_ProceedsAfterCancel ==
    \E p \in Ops :
        /\ calls = 2
        /\ ret[p] = [op |-> "cancel", res |-> "nil"]
        /\ state = "executing"

\* C4: a CancelCopyover called in Scheduled, Announcing or Building (the
\* call has passed its two checks) returns nil, and the machine then reaches
\* Idle with the in-progress flag false, the Cancelled event with the given
\* reason emitted and the module cleanup run.
C4_CancelReachesIdle ==
    \A p \in Ops :
        (pc[p] = "cc_change") ~>
            (/\ currentState = "idle"
             /\ ~inProgress
             /\ cleanupCalls > 0
             /\ \E e \in events : e.type = "Cancelled" /\ e.reason \in CancelReasons)

\* a cancel accepted in Scheduled waits in changeState for the mutex that
\* CancelCopyover itself holds
C4_CancelStuck ==
    \E p \in Ops :
        /\ pc[p] = "cc_change"
        /\ mu = p
        /\ currentState = "scheduled"

\* C5: a cancel is accepted only in Scheduled, Announcing or Building (only
\* in Scheduled by the simplified manager); in every other phase it returns
\* an error, changes neither the phase nor the in-progress flag and starts
\* no cleanup.
C5_CancelOnlyWhenCancellable ==
    [][\A p \in Ops : gen' = gen =>
        /\ (/\ pc[p] = "cc_lock" /\ pc'[p] # "cc_lock"
            /\ currentState \notin {"scheduled", "announcing", "building"}) =>
                /\ ret'[p] = [op |-> "cancel", res |-> "refused"]
                /\ currentState' = currentState
                /\ inProgress' = inProgress
                /\ cleanupCalls' = cleanupCalls
                /\ pc'[Spawned(p)] = pc[Spawned(p)]
        /\ (/\ pc[p] = "cn_lock" /\ pc'[p] # "cn_lock"
            /\ state # "scheduled") =>
                /\ ret'[p] = [op |-> "cancel", res |-> "refused"]
                /\ state' = state
                /\ cleanupCalls' = cleanupCalls
                /\ timerSt' = timerSt /\ chanSt' = chanSt]_vars

\* a cancel was refused while the snapshot phase was running
C5_Witness ==
    \E p \in Ops :
        /\ ret[p] = [op |-> "cancel", res |-> "refused"]
        /\ currentState = "saving"
        /\ inProgress
        /\ cleanupCalls = 0

HardVeto == \E m \in Modules : ~votes[m].ready /\ votes[m].Type = "hard"

\* C6: while a registered module answers CanCopyover with a hard veto,
\* neither an initiate nor a schedule moves the machine out of Idle.
C6_HardVetoKeepsIdle ==
    HardVeto => (currentState = "idle" /\ state = "idle")

\* a schedule was accepted under a hard veto
C6_ScheduledUnderHardVeto ==
    /\ HardVeto
    /\ currentState = "scheduled"
    /\ \E p \in Ops : ret[p] = [op |-> "schedule", res |-> "nil"]

\* C7: an initiate or schedule that is refused (another copyover active, a
\* hard veto, a time in the past, a rejected transition) has written nothing:
\* phase, in-progress flag, scheduling fields and the veto reasons of the
\* status are what they were before the call.
C7_RefusalHasNoEffect ==
    \A p \in Threads :
        (/\ ret[p].op \in {"initiate", "schedule", "copyover"}
         /\ ret[p].res \in {"refused", "rejected"}) => ~dirty[p]

\* a refused initiate has left its veto in the status
C7_RefusedWithEffect ==
    \E p \in Ops :
        /\ ret[p] = [op |-> "initiate", res |-> "refused"]
        /\ dirty[p]
        /\ Len(status.VetoReasons) > 0
        /\ currentState = "idle"

\* C8: CheckModuleVetoes returns exactly one veto for every module that is
\* not ready, under that module's name and with the type it gave, and
\* canProceed is false exactly when one of them is hard; with soft vetoes
\* only, the veto check lets an initiate through.
C8_VetoFanOut ==
    /\ [](\A r \in CheckModuleVetoes(votes) :
            /\ Len(r.vetoes) = Cardinality(NotReady(votes))
            /\ {r.vetoes[i].Module : i \in DOMAIN r.vetoes} = NotReady(votes)
            /\ \A i \in DOMAIN r.vetoes :
                   r.vetoes[i].Type = votes[r.vetoes[i].Module].Type
            /\ r.canProceed <=> ~HardVeto)
    /\ [][\A p \in Threads :
            /\ (/\ pc[p] = "ic_check" /\ pc'[p] # "ic_check"
                /\ CanCopyover(status) /\ ~HardVeto) => pc'[p] = "ic_lock"
            /\ (/\ pc[p] = "cp_lock" /\ pc'[p] # "cp_lock"
                /\ state = "idle" /\ ~HardVeto) => ret'[p].res # "refused"]_vars

\* both modules veto, softly, one of them leaving its name out, and an
\* initiate has passed the veto check
C8_Witness ==
    /\ NotReady(votes) = Modules
    /\ ~HardVeto
    /\ \E m \in Modules : votes[m].Module = ""
    /\ \E p \in Ops : pc[p] = "ic_lock"

\* C9: ScheduleCopyover with a time in the past or in a phase other than
\* Idle returns an error, arms no timer and leaves the phase unchanged; a
\* call that found Idle and a future time moves the phase to Scheduled,
\* records time, initiator and reason, arms the timer and returns nil.
C9_ScheduleContract ==
    [][\A p \in Ops : gen' = gen =>
        /\ (/\ pc[p] = "sc_lock" /\ pc'[p] # "sc_lock"
            /\ (currentState # "idle" \/ call[p].when = "past")) =>
                pc'[p] = "idle"
        /\ (pc[p] \in {"sc_check", "sc_lock"} /\ pc'[p] = "idle") =>
                /\ ret'[p] = [op |-> "schedule", res |-> "refused"]
                /\ currentState' = currentState
                /\ pc'[Spawned(p)] = "idle"
        /\ (pc[p] \in {"sc_change", "sc_arm"} /\ pc'[p] = "idle") =>
                /\ ret'[p] = [op |-> "schedule", res |-> "nil"]
                /\ currentState' = "scheduled"
                /\ status'.ScheduledFor = "future"
                /\ status'.InitiatedBy = p
                /\ status'.Reason \in ScheduleReasons
                /\ pc'[Spawned(p)] = "tm_wait"]_vars

\* a schedule that found Idle and a future time ended in the Go runtime's
\* fatal error instead of Scheduled
C9_ScheduleCrashed ==
    \E p \in Ops :
        /\ ret[p] = [op |-> "schedule", res |-> "fatal"]
        /\ proc = "crashed"
        /\ currentState # "scheduled"

NoCancel == \A p \in Threads : call[p].op # "cancel"

\* C10: a scheduled copyover that nobody cancels does not stay in Scheduled:
\* when the scheduled instant has passed the timer drives the sequence on.
C10_ScheduledProceeds ==
    /\ ([]NoCancel) => ((currentState = "scheduled") ~> (currentState # "scheduled"))
    /\ ([]NoCancel) => ((state = "scheduled") ~> (state # "scheduled"))

\* the timer of a schedule has fired, its InitiateCopyover(0) was refused,
\* and the phase is still Scheduled
C10_TimerRefused ==
    \E p \in Threads \ Ops :
        /\ ret[p] = [op |-> "initiate", res |-> "refused"]
        /\ currentState = "scheduled"

\* the steps of an attempt from the save of the users up to the exec
SnapshotWindow == {"ic_gathering", "ic_gather", "ic_executing", "ic_exec",
                   "ex_executing", "ex_exec"}

\* C11: from the moment user saving begins until the successor is started or
\* the attempt fails, no user command or round tick runs: the world an
\* attempt is about to hand over is the world it saved.
C11_NoTickInsideWindow ==
    \A p \in Threads : pc[p] \in SnapshotWindow => call[p].world = world

\* an attempt at its exec step, without the world lock, after a tick ran
\* since it saved the users
C11_TickInsideWindow ==
    \E p \in Threads :
        /\ pc[p] = "ic_exec"
        /\ mudLock = 0
        /\ call[p].world # world

\* the phase of the machine, in either build
phase == IF build = "manager" THEN currentState ELSE state

\* thread p takes the last step of a copyover attempt that failed with `why`
\* and did not replace the process
EndsFailed(p, why) ==
    /\ gen' = gen
    /\ pc'[p] = "idle"
    /\ \/ pc[p] \in {"ic_deferIdle", "ex_return", "we_failed"} /\ call[p].fail = why
       \/ pc[p] = "ex_build" /\ why = "build"

\* no manager call other than the one of thread p is running
Alone(p) == \A q \in Threads \ {p} : pc[q] = "idle"

\* C12: when the build step fails, the copyover ends with the machine in
\* Idle and the in-progress flag cleared (no other call being under way),
\* and module prepare, user save, gather, snapshot write and exec have not
\* run.
C12_BuildFailureEndsIdle ==
    [][\A p \in Threads :
          EndsFailed(p, "build") =>
              /\ phase' = "idle"
              /\ Alone(p) => ~inProgress'
              /\ call[p].steps \subseteq {"build"}]_vars

\* a build-failed attempt about to end, no other call running, and the
\* in-progress flag set
C12_FlagLeftSet ==
    \E p \in Threads :
        /\ pc[p] = "ic_deferIdle"
        /\ call[p].fail = "build"
        /\ Alone(p)
        /\ inProgress

\* C13: when writing the primary snapshot fails, the copyover aborts with
\* the phase moved to Failed (from where the cleanup may take it on to
\* Idle), the world lock released and no successor started.
C13_SnapshotFailureAborts ==
    [][\A p \in Threads :
          EndsFailed(p, "write") =>
              /\ phase' \in {"failed", "idle"}
              /\ mudLock' # p
              /\ "exec" \notin call[p].steps]_vars

\* every call has returned, the last attempt with an error, and the phase
\* is still Gathering
C13_LeftInGathering ==
    /\ \A p \in Threads : pc[p] = "idle"
    /\ \E p \in Threads : ret[p] = [op |-> "initiate", res |-> "error"]
    /\ currentState = "gathering"
    /\ gen = 0

\* C14: when starting the successor fails, the world lock is released, the
\* phase has become Failed (from where the cleanup may take it on to Idle)
\* and the primary snapshot file is still present.
C14_ExecFailureKeepsSnapshot ==
    [][\A p \in Threads :
          EndsFailed(p, "exec") =>
              /\ mudLock' # p
              /\ phase' \in {"failed", "idle"}
              /\ dataFile']_vars

\* the simplified manager after a failed exec: every call has returned, the
\* world is unlocked, the snapshot is on disk and the state is Executing
C14_LeftInExecuting ==
    /\ build = "simplified"
    /\ \A p \in Threads : pc[p] = "idle"
    /\ \E p \in Threads : ret[p] = [op |-> "copyover", res |-> "error"]
    /\ state = "executing"
    /\ mudLock = 0
    /\ dataFile

\* the failures after which an attempt holds an inheritance list
LateFailures == {"write", "exec"}

\* C15: when an attempt ends without the successor having been started,
\* every file handle of the inheritance list has been closed and the list
\* is empty: with no other call under way no duplicated descriptor is open.
C15_FailedAttemptClosesFiles ==
    [][\A p \in Threads :
          (\E why \in LateFailures : EndsFailed(p, why)) =>
              /\ extraFiles' = <<>>
              /\ Alone(p) => openFiles' = 0]_vars

\* every call has returned, no successor was started, and a descriptor
\* duplicated for an attempt is still open and still in the list
C15_HandleLeaked ==
    /\ \A p \in Threads : pc[p] = "idle"
    /\ gen = 0
    /\ extraFiles # <<>>
    /\ openFiles > 0

\* the gatherers have run: the snapshot holds their records
Gathered == fdPc \in {"exec", "recoverListeners", "recoverConnections", "history", "done"}

\* the FD indices of a snapshot: the listeners' in sorted-name order, then
\* those of the connections that carry a descriptor, in gather order
FdIndices ==
    LET names == sortStrings({x.name : x \in preservedState.Listeners})
        telnet == SelectSeq(preservedState.Connections, LAMBDA c : c.FD # 0)
    IN  [i \in 1..Len(names) |->
            (CHOOSE x \in preservedState.Listeners : x.name = names[i]).FD]
        \o [i \in 1..Len(telnet) |-> telnet[i].FD]

\* C16: the FD indices recorded in a snapshot, listeners first, are exactly
\* 3, 4, 5, ... without gap or duplicate, whatever the listener map holds.
C16_IndicesDense ==
    Gathered => FdIndices = [i \in 1..Len(FdIndices) |-> 2 + i]

\* a snapshot taken with a listener the gatherer skipped, whose connection
\* indices start above the next free descriptor
C16_GapAfterSkippedListener ==
    /\ fdPc = "exec"
    /\ \E n \in DOMAIN listeners : listeners[n] # "tcp"
    /\ \E i \in DOMAIN FdIndices : FdIndices[i] > 2 + i

\* the records of a snapshot that carry an FD index, each with the socket
\* it was taken from
FdRecords ==
    {[FD |-> x.FD, own |-> ListenerFile(x.name)] : x \in preservedState.Listeners}
    \cup {[FD |-> preservedState.Connections[i].FD,
           own |-> ConnFile(preservedState.Connections[i].ConnectionID)] :
             i \in {j \in DOMAIN preservedState.Connections :
                       preservedState.Connections[j].FD # 0}}

\* C17: for every record carrying FD index i, position i-3 of the list
\* handed to the successor holds the handle of that record's own socket,
\* and whatever the successor attaches to a record is that record's socket.
C17_IndexHoldsOwnSocket ==
    /\ fdPc = "exec" =>
          \A r \in FdRecords : osNewFile(extraFiles, r.FD) = r.own
    /\ \A a \in recovered : a.file = a.rec

\* recovery is over, and a connection record's index names the descriptor
\* of another connection's socket
C17_IndexOfAnotherSocket ==
    /\ fdPc = "done"
    /\ \E r \in FdRecords :
          /\ osNewFile(inherited, r.FD) # NoFile
          /\ osNewFile(inherited, r.FD) # r.own

\* the connections the successor has re-established
Reestablished == {a \in recovered : a.rec.conn # 0}

\* C18: the history record of a recovery reports as saved the connections
\* re-established in the successor, and as lost the connections recorded
\* before exec that were not re-established.
C18_HistoryCountsConnections ==
    fdPc = "done" =>
        /\ history.ConnectionsSaved = Cardinality(Reestablished)
        /\ history.ConnectionsLost =
               Len(preservedState.Connections) - Cardinality(Reestablished)

\* a recovery whose snapshot recorded a websocket connection: nothing was
\* re-established for it, and the history reports it saved and none lost
C18_LostReportedSaved ==
    /\ fdPc = "done"
    /\ \E i \in DOMAIN preservedState.Connections :
          preservedState.Connections[i].Type = "websocket"
    /\ history.ConnectionsSaved > Cardinality(Reestablished)
    /\ history.ConnectionsLost = 0

\* ---------------------------------------------------------------- C19
\* C19: once the successor has restored its modules, every module whose
\* GatherState returned a state before the exec has been handed exactly that
\* state by RestoreState, and holds it again.
C19_ModuleStateRoundTrip ==
    modPc = "restored" =>
        \A n \in DOMAIN returned \cap DOMAIN participants :
            /\ n \in DOMAIN restoredWith
            /\ restoredWith[n] = returned[n]
            /\ modState[n] = returned[n]

\* a module returned a state before the exec, and the successor finished its
\* restore without handing it anything
C19_StateNeverHandedBack ==
    /\ modPc = "restored"
    /\ \E n \in DOMAIN returned \cap DOMAIN participants :
         /\ returned[n] # 0
         /\ n \notin DOMAIN restoredWith
         /\ modState[n] = 0

\* ---------------------------------------------------------------- C20
\* C20: a RegisterModule call is rejected exactly when the name is empty or
\* already registered, and a rejected call leaves the participants as they
\* were.
C20_RegisterRejectsEmptyAndDuplicate ==
    [][regCalls' = regCalls + 1 /\ regResult'.op = "RegisterModule" =>
          /\ regResult'.err <=> (regResult'.name = ""
                                   \/ regResult'.name \in DOMAIN participants)
          /\ regResult'.err => participants' = participants]_vars

\* a second module asked for a name already taken: it was rejected and the
\* first module is still the one registered
C20_DuplicateRejected ==
    /\ regResult.op = "RegisterModule"
    /\ regResult.err
    /\ regResult.name \in DOMAIN participants
    /\ participants[regResult.name] # regResult.module

\* the modules a fan-out visited
Visited == {fanOut.visited[i] : i \in DOMAIN fanOut.visited}

\* ---------------------------------------------------------------- C21
\* C21: after GatherModuleStates, every registered module has been asked
\* once, nil has been returned whatever failed, and the state map holds
\* exactly the modules whose GatherState succeeded with a state, each with
\* that state.
C21_GatherKeepsSuccessfulStates ==
    fanOut.op = "gather" =>
        /\ Visited = DOMAIN participants
        /\ Len(fanOut.visited) = Cardinality(DOMAIN participants)
        /\ fanOut.err = ""
        /\ DOMAIN states = {n \in DOMAIN participants \ fanOut.failed : modState[n] # 0}
        /\ \A n \in DOMAIN states : states[n] = modState[n]

\* a gather in which one module holding a state failed and another returned
\* its state: only the second is stored, and nil came back
C21_FailedAndEmptyAbsent ==
    /\ fanOut.op = "gather"
    /\ fanOut.err = ""
    /\ \E n \in fanOut.failed : modState[n] # 0 /\ n \notin DOMAIN states
    /\ \E n \in DOMAIN participants \ fanOut.failed : n \in DOMAIN states

\* ---------------------------------------------------------------- C22
\* C22: after RestoreModuleStates, exactly the registered modules with a
\* stored state have been handed it, those after a failing one too, and the
\* error returned is that of the first module that failed, nil if none did.
C22_RestoreGoesOnAfterFailure ==
    fanOut.op = "restore" =>
        /\ Visited = DOMAIN participants \cap DOMAIN states
        /\ Len(fanOut.visited) = Cardinality(Visited)
        /\ \A n \in Visited : restoredWith[n] = states[n]
        /\ fanOut.err = "" <=> fanOut.failed = {}
        /\ fanOut.err # "" =>
             \E i \in DOMAIN fanOut.visited :
                /\ fanOut.visited[i] = fanOut.err
                /\ fanOut.err \in fanOut.failed
                /\ \A j \in 1..(i - 1) : fanOut.visited[j] \notin fanOut.failed

\* the first module visited failed, the second was restored all the same,
\* and the error of the first came back
C22_RestoredAfterFailure ==
    /\ fanOut.op = "restore"
    /\ Len(fanOut.visited) = 2
    /\ fanOut.failed = {fanOut.visited[1]}
    /\ fanOut.err = fanOut.visited[1]
    /\ fanOut.visited[2] \in DOMAIN restoredWith

\* ---------------------------------------------------------------- C23
\* C23: every fan-out visits the modules in the order of their registration.
C23_FanOutInRegistrationOrder ==
    fanOut.op # "none" =>
        fanOut.visited = SelectSeq(regOrder, LAMBDA n : n \in Visited)

\* two modules were registered one after the other and the gather visited
\* the later one first
C23_VisitedOutOfOrder ==
    /\ fanOut.op = "gather"
    /\ Len(regOrder) = 2
    /\ fanOut.visited = <<regOrder[2], regOrder[1]>>

\* ---------------------------------------------------------------- C24
\* the registry call of goroutine g cannot get the mutex
Blocked(g) ==
    /\ waiting[g].op # "none"
    /\ ~(IF waiting[g].op \in WriterCalls THEN CanLock(g) ELSE CanRLock(g))

\* C24: a registry call issued during a fan-out, by another goroutine or by
\* a module callback, can complete: the goroutine that runs the fan-out never
\* waits for the mutex its own fan-out holds; and the fan-out visits the
\* modules registered at its start, the registry staying as it was meanwhile.
C24_FanOutNeverBlocksRegistry ==
    fan.op # "none" =>
        /\ ~Blocked(1)
        /\ DOMAIN participants = fan.start
        /\ {fan.seen[i] : i \in DOMAIN fan.seen} \cup fan.todo = fan.start

\* GatherState of a module has called GetRegisteredModules: the goroutine
\* waits for a read lock while its own GatherModuleStates holds the write lock
C24_CallbackWaitsForItself ==
    /\ fan.op = "gather"
    /\ waiting[1].op = "get"
    /\ Blocked(1)

\* ---------------------------------------------------------------- C25
\* C25: writes to the manager's shared state are serialized: an operation
\* that appends its veto reasons to the status adds them to the reasons the
\* status holds at that moment, none of them being lost.
C25_VetoReasonsNeverLost ==
    [][\A p \in Threads :
          (pc[p] = "ic_append" /\ pc'[p] = "idle") =>
              status'.VetoReasons = status.VetoReasons \o call[p].vetoes]_vars

\* two initiates were refused on the veto of the same module, each appended
\* its report, and the status holds one report only
C25_ReportOverwritten ==
    /\ \A p \in Ops : ret[p] = [op |-> "initiate", res |-> "refused"] /\ dirty[p]
    /\ Cardinality(NotReady(votes)) = 1
    /\ Len(status.VetoReasons) = 1

\* C26: a process started with the snapshot file present and the marker
\* absent removes the file in init() and starts in Idle, and its main does
\* not enter the recovery: it boots as a cold start.
C26_StaleSnapshotRemoved ==
    [][/\ (pc[1] = "boot" /\ pc'[1] = "main" /\ ~marker /\ dataFile)
            => (~dataFile' /\ phase' = "idle")
       /\ (pc[1] = "main" /\ pc'[1] \notin {"main", "boot"} /\ ~marker)
            => pc'[1] = "idle"]_vars

\* the ten-phase manager, started without the marker, has kept the stale
\* file, is in Recovering and has entered RecoverFromCopyover
C26_StaleFileStartsRecovery ==
    /\ build = "manager"
    /\ ~marker /\ dataFile
    /\ currentState = "recovering"
    /\ pc[1] = "rc_start" /\ call[1].op = "recover"

\* C27: a recovery that finds the snapshot file but cannot read or parse it
\* deletes the file and goes on as a cold boot: when the call ends at the
\* load, the file is gone and the phase is Idle.
C27_MalformedSnapshotIsColdBoot ==
    [][\A p \in Threads :
         (pc[p] \in {"rc_start", "rs_start"} /\ dataFile /\ pc'[p] = "idle")
            => (~dataFile' /\ phase' = "idle")]_vars

\* the recovery has returned an error at the load: the unreadable file is
\* still there and the phase is still Recovering
C27_UnreadableFileKept ==
    /\ ret[1] = [op |-> "recover", res |-> "error"]
    /\ pc[1] = "idle"
    /\ dataFile
    /\ phase = "recovering"
    /\ restorerCalls = [r \in Restorers |-> 0]

C29_SnapshotNeverPartial ==
    [][/\ Whole(files'[CopyoverDataFile])
       /\ Whole(lastRead')
       /\ files'[CopyoverDataFile] # files[CopyoverDataFile]
            => files'[CopyoverDataFile] \in
                 {Absent, [ver |-> saveNo, len |-> SnapshotLen]}]_vars

\* the process died in the middle of writing the second snapshot: the
\* temporary file is partial, and a reader is given the whole first snapshot
C29_CrashedMidWrite ==
    /\ savePc = "crashed"
    /\ files[TempFile].ver = 2
    /\ files[TempFile].len \in 1..(SnapshotLen - 1)
    /\ files[CopyoverDataFile] = [ver |-> 1, len |-> SnapshotLen]
    /\ lastRead = files[CopyoverDataFile]

\* the failures that come after PrepareCopyover has run on the modules
AfterPrepare == {"write", "exec"}

\* C30: the cleanup fan-out runs exactly when a copyover is cancelled or
\* aborts.  When an attempt that has run the prepare fan-out ends without
\* the successor having been started, and no other call is under way, every
\* prepare fan-out of this process has had its cleanup fan-out; and a step
\* runs the cleanup only for a cancellation or a failed attempt, so never
\* for a copyover whose exec succeeds.
C30_CleanupAfterAbort ==
    [][/\ \A p \in Threads :
            (/\ \E why \in AfterPrepare : EndsFailed(p, why)
             /\ "prepare" \in call[p].steps
             /\ Alone(p))
               => cleanupCalls' >= prepareCalls'
       /\ cleanupCalls' > cleanupCalls
            => \E p \in Threads :
                 /\ pc'[p] # pc[p]
                 /\ call[p].op \in {"cancel", "cleanup"} \/ call[p].fail # ""]_vars

\* an attempt has prepared the modules and failed, every call has returned,
\* no successor was started, and no cleanup fan-out has run
C30_PreparedNeverCleaned ==
    /\ \A p \in Threads : pc[p] = "idle"
    /\ \E p \in Threads : ret[p].res = "error" /\ ret[p].op \in {"initiate", "copyover"}
    /\ gen = 0
    /\ prepareCalls = 1
    /\ cleanupCalls = 0

\* C31: after any sequence of addToHistory calls the history holds at most
\* 100 records, they are the most recent ones in the order of their
\* insertion, each carries as ID the number of the call that added it (so
\* the IDs grow strictly and none is used twice), and TotalCopyovers is the
\* number of calls made.
C31_HistoryBounded ==
    /\ Len(historyRing) <= HistoryLimit
    /\ Len(historyRing) = IF Len(added) < HistoryLimit THEN Len(added) ELSE HistoryLimit
    /\ \A i \in DOMAIN historyRing :
         /\ historyRing[i].n = added[Len(added) - Len(historyRing) + i]
         /\ historyRing[i].ID = historyRing[i].n
    /\ \A i, j \in DOMAIN historyRing : i < j => historyRing[i].ID < historyRing[j].ID
    /\ historyCounter = Len(added)
    /\ totalCopyovers = Len(added)

\* two records more than the history keeps have been added: the two
\* oldest are gone
C31_OldestDropped ==
    /\ Len(added) = HistoryLimit + 2
    /\ Len(historyRing) = HistoryLimit
    /\ historyRing[1].ID = 3
    /\ historyRing[HistoryLimit].ID = HistoryLimit + 2

\* C32: RestoreEventState enqueues only events whose tag has a constructor
\* of its own, each built by that constructor and with its saved priority
\* and order; a serialized event of an unknown tag is not enqueued.
C32_UnknownEventsDiscarded ==
    evPc = "restored" =>
        /\ \A e \in globalQueue :
             /\ e.event.Type \in KnownTags
             /\ e.event.impl = e.event.Type
             /\ e.order \in DOMAIN savedEvents
             /\ savedEvents[e.order].EventType = e.event.Type
             /\ savedEvents[e.order].Priority = e.priority
        /\ \A i \in DOMAIN savedEvents :
             savedEvents[i].EventType \notin KnownTags
                => ~\E e \in globalQueue : e.order = i

\* an event of a tag without constructor was saved, and the restored queue
\* holds it as a generic event
C32_UnknownEventEnqueued ==
    /\ evPc = "restored"
    /\ \E e \in globalQueue :
         /\ e.event.impl = "GenericEventImpl"
         /\ e.event.Type = "PlayerSpawn"
         /\ savedEvents[e.order].EventType = "PlayerSpawn"

\* the announcements made after the initial one
Later == SubSeq(announced, 2, Len(announced))

\* C33: a countdown of N seconds that has run to its end has made: first the
\* initial announcement, for every N; then one announcement at each whole
\* minute above one minute that remained; one countdown announcement at
\* each of 60, 30, 15, 10, 9, ..., 1 seconds not above N; and last the one
\* final notice; in decreasing order of the time that remained, and after
\* the initial announcement no instant twice.
C33_AnnouncementCadence ==
    annPc = "done" =>
        /\ Len(announced) >= 2
        /\ announced[1] = [template |-> "announce", at |-> countdownFrom]
        /\ announced[Len(announced)] = [template |-> "pre", at |-> 0]
        /\ {i \in DOMAIN announced : announced[i].template = "pre"} = {Len(announced)}
        /\ {Later[i].at : i \in {j \in DOMAIN Later : Later[j].template = "announce"}}
             = {m \in 1..countdownFrom : m % 60 = 0 /\ m > 60 /\ m < countdownFrom}
        /\ {Later[i].at : i \in {j \in DOMAIN Later : Later[j].template = "countdown"}}
             = {m \in CountdownMarks : m <= countdownFrom}
        /\ \A i, j \in DOMAIN Later : i < j => Later[i].at > Later[j].at

\* a countdown of five seconds has ended and its first announcement was a
\* countdown announcement: there was no initial one
C33_NoInitialAnnouncement ==
    /\ annPc = "done"
    /\ countdownFrom = 5
    /\ announced[1] = [template |-> "countdown", at |-> 5]

\* C34: RestorePartyState applied to what GatherPartyState returned yields
\* the party map it was gathered from, with the same keys and under each key
\* the same leader, members, invites, auto-attackers and positions; and a
\* gather after the restore returns the same parties as the first gather.
C34_PartyRoundTrip ==
    /\ partyPc \in {"restored", "again"} => partyMap = origMap
    /\ partyPc = "again" =>
         /\ Elems(partyList) = Elems(firstList)
         /\ Len(partyList) = Len(firstList)

\* a party of two was kept under its leader's id: after the restore it is
\* also entered under the member's id
C34_MemberKeyAdded ==
    /\ partyPc = "restored"
    /\ DOMAIN origMap = {1}
    /\ origMap[1].UserIds = <<1, 2>>
    /\ DOMAIN partyMap = {1, 2}

\* C35: no manager operation acquires the manager mutex while it holds it,
\* none unlocks it twice, and CancelCopyover, ScheduleCopyover,
\* InitiateCopyover and changeState return with the mutex free: no call
\* stands at changeState holding m.mu, no call ended in the runtime's
\* "Unlock of unlocked RWMutex", and a call that has returned holds nothing.
C35_MutexDiscipline ==
    \A p \in Threads :
        /\ ~(mu = p /\ pc[p] = "cc_change")
        /\ ret[p].res # "fatal"
        /\ pc[p] = "idle" => mu # p

\* CancelCopyover holds m.mu (line 950) and has called changeState, whose
\* first statement locks m.mu again
C35_LockedTwice ==
    \E p \in Ops :
        /\ call[p].op = "cancel"
        /\ pc[p] = "cc_change"
        /\ mu = p

\* C36: a copyover attempt that ends without replacing the process leaves
\* the manager in Idle with the in-progress flag cleared: whenever the last
\* running call of an attempt (InitiateCopyover, also from the timer;
\* Copyover and waitAndExecute in the simplified manager) returns and the
\* process lives on, the phase is Idle and the flag is false.
C36_AttemptEndsIdle ==
    [][\A p \in Threads :
        (/\ gen' = gen
         /\ proc' = "running"
         /\ call[p].op \in {"initiate", "copyover", "wait"}
         /\ pc[p] # "idle"
         /\ \A q \in Threads : pc'[q] = "idle")
        => IF build = "manager"
           THEN currentState' = "idle" /\ ~inProgress'
           ELSE state' = "idle"]_vars

\* every call has returned, the last attempt's InitiateCopyover among them,
\* and the manager is left in an active phase or with the flag set
C36_StuckAfterAttempt ==
    /\ build = "manager"
    /\ proc = "running"
    /\ \A q \in Threads : pc[q] = "idle"
    /\ \E p \in Threads : ret[p].op = "initiate" /\ ret[p].res # "refused"
    /\ inProgress \/ IsActive(currentState)
    /\ currentState # "recovering"

\* C37: a scheduled copyover starts its execution at most once and only
\* when its own countdown has elapsed: a waiter that takes the manager out
\* of Scheduled into execute does so on the timer of the schedule the
\* manager currently holds, which has fired, and no second goroutine
\* executes on the same timer; in manager.go the timer goroutine that finds
\* Scheduled is the only one there is, the one of the schedule in force.
C37_OwnCountdownOnly ==
    [][\A p \in Threads : gen' = gen =>
        /\ (pc[p] = "we_wait" /\ pc'[p] = "ex_start" /\ state = "scheduled") =>
                /\ call[p].tmr = timer
                /\ timerSt[timer] = "fired"
                /\ \A q \in Threads \ {p} :
                     (call[q].op = "wait" /\ pc[q] \notin {"we_enter", "we_wait"})
                        => call[q].tmr # timer
        /\ (pc[p] = "tm_wait" /\ pc'[p] = "ic_check") =>
                \A q \in Threads \ {p} : pc[q] # "tm_wait"]_vars

\* the waiter of a cancelled schedule has taken its own, already fired
\* timer in the select and stands at execute while the manager is in
\* Scheduled for a later schedule whose timer is still armed
C37_StaleWaiterExecutes ==
    \E p \in Threads :
        /\ call[p].op = "wait"
        /\ pc[p] = "ex_start"
        /\ chanSt[call[p].chn] = "closed"
        /\ state = "scheduled"
        /\ timer # call[p].tmr
        /\ timerSt[timer] = "armed"

\* C38: in the simplified manager a cancellation channel is closed at most
\* once over any sequence of Copyover, Cancel and Reset: neither Cancel nor
\* Reset applies close() to a channel that is already closed.
C38_ChannelClosedOnce ==
    [][\A p \in Threads : gen' = gen =>
        /\ (pc[p] = "rt_lock" /\ pc'[p] # "rt_lock" /\ cancelChan # 0) =>
                chanSt[cancelChan] # "closed"
        /\ (pc[p] = "cn_lock" /\ pc'[p] = "cn_cleanup" /\ cancelChan # 0) =>
                chanSt[cancelChan] # "closed"]_vars

\* Reset, called after a Cancel has closed the schedule's channel, closed
\* it again and the process ended in the panic
C38_ResetClosedTwice ==
    \E p \in Ops :
        /\ ret[p] = [op |-> "reset", res |-> "panic"]
        /\ proc = "crashed"
        /\ \E q \in Ops : ret[q] = [op |-> "cancel", res |-> "nil"]

\* C39: a blob file that a successor restores was written by the gather of
\* the copyover that started that successor, never by an earlier attempt.
C39_RestoredBlobIsOwn ==
    \A s \in Systems :
        restoredBlob[s] # NoBlob => restoredBlob[s].by = startedBy

\* the successor restored a system from the blob of an earlier attempt that
\* failed after its gather; the system had nothing to save at the attempt
\* that started the successor
C39_StaleBlobRestored ==
    \E s \in Systems :
        /\ blobPc = "run"
        /\ startedBy > 1
        /\ restoredBlob[s] # NoBlob
        /\ restoredBlob[s].by < startedBy
        /\ live[s] = restoredBlob[s].items

\* C40: once the operator has issued the copyover verb the manager's status
\* carries the operator's user id and the reason, and so does the history
\* record written for that copyover.
C40_StatusCarriesOperator ==
    /\ cmdPc \in {"queued", "started"} =>
            /\ managerStatus.InitiatedBy = issued.by
            /\ managerStatus.Reason = issued.reason
    /\ cmdPc = "recovered" =>
            /\ historyRecord.InitiatedBy = issued.by
            /\ historyRecord.Reason = issued.reason

\* the command set initiator and reason on the copy GetStatus returned; the
\* manager's status never had them and the history record names nobody
C40_InitiatorLost ==
    /\ cmdPc = "recovered"
    /\ issued.by \in Users
    /\ statusCopy.InitiatedBy = issued.by
    /\ historyRecord.InitiatedBy = 0
    /\ historyRecord.Reason = ""
====
